---- MODULE Spec2Model ----
(***************************************************************************)
(* The in-memory data layer of RealLifeGit: InMemoryDataStore              *)
(* (in-memory-store.ts) with the validators of validation.ts and the id    *)
(* generator of mock-data-generator.ts.                                    *)
(*                                                                         *)
(* Strings are sequences of one-character strings, so that the regular     *)
(* expressions and trim() of the validators are computed, not assumed.     *)
(* Dates are integers (milliseconds).  A JavaScript Map is a sequence of   *)
(* entries [key, val] in insertion order.                                  *)
(***************************************************************************)
EXTENDS Integers, Sequences, FiniteSets, TLC

VARIABLES projects, commits, branches, tasks, issues, pullRequests,
          commitEdges, initialized, now, calls, last, ops

store == <<projects, commits, branches, tasks, issues, pullRequests,
           commitEdges, initialized>>
vars == <<projects, commits, branches, tasks, issues, pullRequests,
          commitEdges, initialized, now, calls, last, ops>>

-----------------------------------------------------------------------------
(* Bounds of the model.                                                    *)

\* the clock runs from 0 to MaxTime
MaxTime == 2
\* operations started in one behaviour of the sequential specification
MaxOps == 2
\* concurrent createCommit calls in the concurrent specification
NumCallers == 2

-----------------------------------------------------------------------------
(* Characters and strings.                                                 *)

Lower == {"a", "b", "c", "d", "e", "f", "g", "h", "i", "j", "k", "l", "m",
          "n", "o", "p", "q", "r", "s", "t", "u", "v", "w", "x", "y", "z"}
Upper == {"A", "B", "C", "D", "E", "F", "G", "H", "I", "J", "K", "L", "M",
          "N", "O", "P", "Q", "R", "S", "T", "U", "V", "W", "X", "Y", "Z"}
Digit == {"0", "1", "2", "3", "4", "5", "6", "7", "8", "9"}
Whitespace == {" ", "\t", "\n"}

\* TLC cannot take a string apart: the characters of every string of the model.
\* A hash is the string generateCommitHash joins from its random draws.
CharTable(str) ==
    CASE str = "" -> <<>>
      [] str = " " -> <<" ">>
      [] str = "main" -> <<"m", "a", "i", "n">>
      [] str = "dev" -> <<"d", "e", "v">>
      [] str = "life" -> <<"l", "i", "f", "e">>
      [] str = "gym" -> <<"g", "y", "m">>
      [] str = "john" -> <<"j", "o", "h", "n">>
      [] str = "ann" -> <<"a", "n", "n">>
      [] str = "John" -> <<"J", "o", "h", "n">>
      [] str = "j@x.io" -> <<"j", "@", "x", ".", "i", "o">>
      [] str = "j@x" -> <<"j", "@", "x">>
      [] str = "current-user" -> <<"c", "u", "r", "r", "e", "n", "t", "-", "u", "s", "e", "r">>
      [] str = "ghost-9" -> <<"g", "h", "o", "s", "t", "-", "9">>
      [] str = "no id" -> <<"n", "o", " ", "i", "d">>
      [] str = "seed" -> <<"s", "e", "e", "d">>
      [] str = "fix" -> <<"f", "i", "x">>
      [] str = "run" -> <<"r", "u", "n">>
      [] str = "bug" -> <<"b", "u", "g">>
      [] str = "proj-1" -> <<"p", "r", "o", "j", "-", "1">>
      [] str = "proj-2" -> <<"p", "r", "o", "j", "-", "2">>
      [] str = "proj-k" -> <<"p", "r", "o", "j", "-", "k">>
      [] str = "proj-x" -> <<"p", "r", "o", "j", "-", "x">>
      [] str = "commit-1" -> <<"c", "o", "m", "m", "i", "t", "-", "1">>
      [] str = "commit-2" -> <<"c", "o", "m", "m", "i", "t", "-", "2">>
      [] str = "commit-3" -> <<"c", "o", "m", "m", "i", "t", "-", "3">>
      [] str = "commit-k" -> <<"c", "o", "m", "m", "i", "t", "-", "k">>
      [] str = "commit-x" -> <<"c", "o", "m", "m", "i", "t", "-", "x">>
      [] str = "branch-1" -> <<"b", "r", "a", "n", "c", "h", "-", "1">>
      [] str = "branch-2" -> <<"b", "r", "a", "n", "c", "h", "-", "2">>
      [] str = "branch-k" -> <<"b", "r", "a", "n", "c", "h", "-", "k">>
      [] str = "branch-x" -> <<"b", "r", "a", "n", "c", "h", "-", "x">>
      [] str = "pr-1" -> <<"p", "r", "-", "1">>
      [] str = "pr-k" -> <<"p", "r", "-", "k">>
      [] str = "pr-x" -> <<"p", "r", "-", "x">>
      [] str = "edge-1" -> <<"e", "d", "g", "e", "-", "1">>
      [] str = "task-1" -> <<"t", "a", "s", "k", "-", "1">>
      [] str = "issue-1" -> <<"i", "s", "s", "u", "e", "-", "1">>
      [] str = "task-3" -> <<"t", "a", "s", "k", "-", "3">>
      [] str = "task-2" -> <<"t", "a", "s", "k", "-", "2">>
      [] str = "issue-2" -> <<"i", "s", "s", "u", "e", "-", "2">>
      [] str = "GY" -> <<"G", "Y">>
      [] str = "if" -> <<"i", "f">>
      [] str = "x.io" -> <<"x", ".", "i", "o">>
      [] str = "Jo" -> <<"J", "o">>
      [] str = "jo" -> <<"j", "o">>
      [] str = "john@example.com" -> <<"j", "o", "h", "n", "@", "e", "x", "a", "m", "p", "l", "e", ".", "c", "o", "m">>
      [] str = "jane@example.com" -> <<"j", "a", "n", "e", "@", "e", "x", "a", "m", "p", "l", "e", ".", "c", "o", "m">>

HexDigits == <<"0", "1", "2", "3", "4", "5", "6", "7",
               "8", "9", "a", "b", "c", "d", "e", "f">>
HexChars == {HexDigits[k] : k \in DOMAIN HexDigits}
HashLen == 40
ShortHashLen == 7
\* the sequences of random draws the model lets generateCommitHash see
HashDraws == {[i \in 1..HashLen |-> (i * k) % 16] : k \in {3}}
SeedDraw == [i \in 1..HashLen |-> (i * 5) % 16]

\* Array.prototype.join('')
RECURSIVE join(_)
join(cs) == IF cs = <<>> THEN "" ELSE Head(cs) \o join(Tail(cs))

HashChars(draw) == [i \in 1..HashLen |-> HexDigits[draw[i] + 1]]

\* the first seven characters of a hash of the model
ShortChars(d) == SubSeq(HashChars(d), 1, ShortHashLen)

Chars(str) ==
    IF Len(str) = HashLen
    THEN HashChars(CHOOSE d \in HashDraws \cup {SeedDraw} : join(HashChars(d)) = str)
    ELSE IF /\ Len(str) = ShortHashLen
            /\ \E d \in HashDraws \cup {SeedDraw} : join(ShortChars(d)) = str
         THEN ShortChars(CHOOSE d \in HashDraws \cup {SeedDraw} : join(ShortChars(d)) = str)
         ELSE CharTable(str)

\* validators.isNonEmptyString: value.trim().length > 0
isNonEmptyString(value) ==
    \E i \in 1..Len(Chars(value)) : Chars(value)[i] \notin Whitespace

\* validators.isValidId: value.length > 0 && /^[a-zA-Z0-9\-_]+$/
isValidId(value) ==
    /\ Len(Chars(value)) > 0
    /\ \A i \in 1..Len(Chars(value)) :
          Chars(value)[i] \in Lower \cup Upper \cup Digit \cup {"-", "_"}

\* validators.isEmail: /^[^\s@]+@[^\s@]+\.[^\s@]+$/
isEmail(value) ==
    LET cs == Chars(value)
    IN  \E i \in 1..Len(cs) :
            /\ cs[i] = "@"
            /\ i > 1
            /\ \A k \in 1..Len(cs) :
                  /\ cs[k] \notin Whitespace
                  /\ (k # i => cs[k] # "@")
            /\ \E j \in (i + 2)..(Len(cs) - 1) : cs[j] = "."

\* validators.isPositiveNumber: typeof value === 'number' && value >= 0
isPositiveNumber(value) == value >= 0

\* validators.isDate: every Date instance passes
isDate(value) == value \in Int

\* validators.isCommitHash: /^[a-f0-9]{40}$/
isCommitHash(value) ==
    /\ Len(Chars(value)) = HashLen
    /\ \A i \in 1..Len(Chars(value)) : Chars(value)[i] \in HexChars

\* validators.isShortCommitHash: /^[a-f0-9]{7}$/
isShortCommitHash(value) ==
    /\ Len(Chars(value)) = ShortHashLen
    /\ \A i \in 1..Len(Chars(value)) : Chars(value)[i] \in HexChars

-----------------------------------------------------------------------------
(* JavaScript Map, in insertion order.                                     *)

MapKeys(m) == {m[i].key : i \in 1..Len(m)}
MapHas(m, k) == \E i \in 1..Len(m) : m[i].key = k
MapIndex(m, k) == CHOOSE i \in 1..Len(m) : m[i].key = k
MapGet(m, k) == m[MapIndex(m, k)].val
\* Map.prototype.set: an existing key keeps its position
MapSet(m, k, v) ==
    IF MapHas(m, k)
    THEN [m EXCEPT ![MapIndex(m, k)] = [key |-> k, val |-> v]]
    ELSE Append(m, [key |-> k, val |-> v])
\* a delete that removes nothing
MapDeleteKeepsEntry(m, k) == m

\* Map.prototype.delete
MapDelete(m, k) == SelectSeq(m, LAMBDA e : e.key # k)
\* Array.from(map.values())
MapValues(m) == [i \in 1..Len(m) |-> m[i].val]

\* { ...base, ...updates }
Spread(base, updates) ==
    [f \in DOMAIN base \cup DOMAIN updates |->
        IF f \in DOMAIN updates THEN updates[f] ELSE base[f]]

-----------------------------------------------------------------------------
(* Validation (validation.ts).  A validator returns the sequence of the    *)
(* messages of the violated rules, in the order the rules are checked.     *)
(* The typeof tests are met by construction: every modelled value has the  *)
(* type its TypeScript declaration gives it.                               *)

\* a validator that stops at the first violated rule
CollectFirst(rules) ==
    LET bad == SelectSeq(rules, LAMBDA r : ~r[1])
    IN  IF bad = <<>> THEN <<>> ELSE <<bad[1][2]>>

\* errors.push(...) for every rule <<ok, message>> that is not ok
Collect(rules) ==
    LET bad == SelectSeq(rules, LAMBDA r : ~r[1])
    IN  [i \in 1..Len(bad) |-> bad[i][2]]

PullRequestStatus == {"open", "merged", "closed", "draft"}

ProjectRules(data) == <<
    <<isValidId(data.id), "Project ID must be a valid identifier">>,
    <<isNonEmptyString(data.name), "Project name is required and must be non-empty">>,
    <<isNonEmptyString(data.owner), "Project owner is required">>,
    <<isDate(data.createdAt), "Project createdAt must be a valid date">>,
    <<isDate(data.updatedAt), "Project updatedAt must be a valid date">>,
    <<data.isPrivate \in BOOLEAN, "Project isPrivate must be a boolean">>,
    <<isNonEmptyString(data.defaultBranch), "Project defaultBranch is required">>,
    <<isPositiveNumber(data.starCount), "Project starCount must be a positive number">>,
    <<isPositiveNumber(data.forkCount), "Project forkCount must be a positive number">> >>

validateProject(data) == Collect(ProjectRules(data))

BranchRules(data) == <<
    <<isValidId(data.id), "Branch ID must be a valid identifier">>,
    <<isNonEmptyString(data.name), "Branch name is required and must be non-empty">>,
    <<isValidId(data.projectId), "Branch projectId must be a valid identifier">>,
    <<isValidId(data.headCommitId), "Branch headCommitId must be a valid identifier">>,
    <<isDate(data.createdAt), "Branch createdAt must be a valid date">>,
    <<isNonEmptyString(data.createdBy), "Branch createdBy is required">>,
    <<data.isDefault \in BOOLEAN, "Branch isDefault must be a boolean">>,
    <<data.isProtected \in BOOLEAN, "Branch isProtected must be a boolean">>,
    <<isDate(data.lastActivity), "Branch lastActivity must be a valid date">> >>

validateBranch(data) == Collect(BranchRules(data))

PullRequestRules(data) == <<
    <<isValidId(data.id), "PullRequest ID must be a valid identifier">>,
    <<isPositiveNumber(data.number), "PullRequest number must be a positive number">>,
    <<isNonEmptyString(data.title), "PullRequest title is required and must be non-empty">>,
    <<isNonEmptyString(data.fromBranch), "PullRequest fromBranch is required">>,
    <<isNonEmptyString(data.toBranch), "PullRequest toBranch is required">>,
    <<data.status \in PullRequestStatus, "PullRequest status must be one of: open, merged, closed, draft">>,
    <<isNonEmptyString(data.author), "PullRequest author is required">>,
    <<isValidId(data.projectId), "PullRequest projectId must be a valid identifier">> >>

validatePullRequest(data) == Collect(PullRequestRules(data))

TaskStatus == {"todo", "in_progress", "review", "done", "blocked", "cancelled"}
TaskPriority == {"low", "medium", "high", "urgent"}

\* data.f is undefined when the object has no field f
Has(data, f) == f \in DOMAIN data

TaskRules(data) == <<
    <<isValidId(data.id), "Task ID must be a valid identifier">>,
    <<Has(data, "title") /\ isNonEmptyString(data.title),
      "Task title is required and must be non-empty">>,
    <<Has(data, "description") => data.description \in STRING,
      "Task description must be a string">>,
    <<Has(data, "status") /\ data.status \in TaskStatus,
      "Task status must be one of: todo, in_progress, review, done, blocked, cancelled">>,
    <<Has(data, "priority") /\ data.priority \in TaskPriority,
      "Task priority must be one of: low, medium, high, urgent">>,
    <<Has(data, "assignee") => isNonEmptyString(data.assignee),
      "Task assignee must be a non-empty string if provided">>,
    <<isDate(data.createdAt), "Task createdAt must be a valid date">>,
    <<isDate(data.updatedAt), "Task updatedAt must be a valid date">>,
    <<Has(data, "dueDate") => isDate(data.dueDate),
      "Task dueDate must be a valid date if provided">>,
    <<Has(data, "labels"), "Task labels must be an array">>,
    <<Has(data, "metadata"), "Task metadata must be an object">>,
    <<isValidId(data.projectId), "Task projectId must be a valid identifier">> >>

validateTask(data) == Collect(TaskRules(data))

\* the author rules are checked only when author is an object
CommitRules(data) ==
    << <<isValidId(data.id), "Commit ID must be a valid identifier">>,
       <<isCommitHash(data.hash), "Commit hash must be a valid 40-character hex string">>,
       <<isShortCommitHash(data.shortHash),
         "Commit shortHash must be a valid 7-character hex string">>,
       <<isNonEmptyString(data.message), "Commit message is required and must be non-empty">> >>
    \o (IF ~Has(data, "author")
        THEN << <<FALSE, "Commit author is required and must be an object">> >>
        ELSE << <<isNonEmptyString(data.author.name), "Commit author name is required">>,
                <<isEmail(data.author.email), "Commit author email must be valid">> >>)
    \o << <<isDate(data.timestamp), "Commit timestamp must be a valid date">>,
          <<Has(data, "parentIds"), "Commit parentIds must be an array">>,
          <<isNonEmptyString(data.branchName), "Commit branchName is required">>,
          <<Has(data, "changedTasks"), "Commit changedTasks must be an array">> >>

validateCommit(data) == Collect(CommitRules(data))

validateCreateCommitRequest(data) == Collect(<<
    <<isNonEmptyString(data.message), "Commit message is required and must be non-empty">>,
    <<isNonEmptyString(data.branchName), "Branch name is required">>,
    <<isNonEmptyString(data.author.name), "Author name is required">>,
    <<isEmail(data.author.email), "Author email must be valid">> >>)

validateCreateBranchRequest(data) == Collect(<<
    <<isNonEmptyString(data.name), "Branch name is required and must be non-empty">>,
    <<isValidId(data.fromCommitId), "From commit ID must be a valid identifier">> >>)

validateCreatePullRequestRequest(data) == Collect(<<
    <<isNonEmptyString(data.title), "Pull request title is required and must be non-empty">>,
    <<isNonEmptyString(data.description), "Pull request description is required and must be non-empty">>,
    <<isNonEmptyString(data.fromBranch), "From branch is required">>,
    <<isNonEmptyString(data.toBranch), "To branch is required">> >>)

\* validateData: routes to the validator of dataType
validateData(dataType, data) ==
    CASE dataType = "project" -> validateProject(data)
      [] dataType = "task" -> validateTask(data)
      [] dataType = "commit" -> validateCommit(data)
      [] dataType = "branch" -> validateBranch(data)
      [] dataType = "pullRequest" -> validatePullRequest(data)
      [] dataType = "createCommitRequest" -> validateCreateCommitRequest(data)
      [] dataType = "createBranchRequest" -> validateCreateBranchRequest(data)
      [] dataType = "createPullRequestRequest" -> validateCreatePullRequestRequest(data)
      [] OTHER -> <<"Unknown data type">>

\* return { isValid: errors.length === 0, errors }
ValidationResult(errors) == [isValid |-> Len(errors) = 0, errors |-> errors]

\* validateOrThrow: TRUE iff it returns normally (FALSE: it throws)
validateOrThrow(dataType, data) == validateData(dataType, data) = <<>>

-----------------------------------------------------------------------------
(* Identifiers, hashes and the values the operations are called with.      *)

\* generateId(prefix): `${prefix}-${suffix}`, the suffix drawn at random
generateId(prefix, suffix) == prefix \o "-" \o suffix

\* the random suffixes Math.random().toString(36).substr(2, 9) is drawn from
Suffixes == {"k", "x"}

PROJ == "proj"
COMMIT == "commit"
BRANCH == "branch"
PR == "pr"
EDGE == "edge"
TASK == "task"
ISSUE == "issue"

\* generateCommitHash(): 40 digits, each Math.floor(Math.random() * 16).toString(16),
\* joined
generateCommitHash(draw) == join(HashChars(draw))
\* str.substring(from, to)
substring(str, from, to) == join(SubSeq(Chars(str), from + 1, to))

Main == "main"
Dev == "dev"
Empty == ""
Blank == " "
CurrentUser == "current-user"
John == [name |-> "John", email |-> "j@x.io"]
NoEmail == [name |-> "John", email |-> "j@x"]

\* a well-formed identifier under which nothing is ever stored
Ghost == "ghost-9"
\* not an identifier: it holds a blank
BadId == "no id"

P1 == generateId(PROJ, "1")
P2 == generateId(PROJ, "2")
C1id == generateId(COMMIT, "1")
C2id == generateId(COMMIT, "2")
C3id == generateId(COMMIT, "3")
B1 == generateId(BRANCH, "1")
B2 == generateId(BRANCH, "2")

-----------------------------------------------------------------------------
(* The fixtures the store is seeded with (data/fixtures/*.json): two       *)
(* projects, each with its default branch "main"; project 1 has the chain  *)
(* commit-1 -> commit-2 with its edge, project 2 the root commit-3.        *)

Time0 == 0

SeedCommit(id, parents) ==
    [id |-> id,
     hash |-> generateCommitHash(SeedDraw),
     shortHash |-> substring(generateCommitHash(SeedDraw), 0, ShortHashLen),
     message |-> "seed",
     author |-> John,
     timestamp |-> Time0,
     parentIds |-> parents,
     branchName |-> Main,
     changedTasks |-> <<>>,
     stats |-> [tasksAdded |-> 0, tasksModified |-> 0, tasksDeleted |-> 0, totalChanges |-> 0]]

SeedProject(id) ==
    [id |-> id, name |-> "life", description |-> Empty,
     owner |-> "john", createdAt |-> Time0, updatedAt |-> Time0,
     isPrivate |-> FALSE, defaultBranch |-> Main, starCount |-> 0, forkCount |-> 0]

SeedBranch(id, projectId, head) ==
    [id |-> id, name |-> Main, projectId |-> projectId, headCommitId |-> head,
     createdAt |-> Time0, createdBy |-> "john", isDefault |-> TRUE,
     isProtected |-> TRUE, lastActivity |-> Time0]

Entry(v) == [key |-> v.id, val |-> v]

mockProjects == <<Entry(SeedProject(P1)), Entry(SeedProject(P2))>>
mockCommits == <<Entry(SeedCommit(C1id, <<>>)), Entry(SeedCommit(C2id, <<C1id>>)),
                 Entry(SeedCommit(C3id, <<>>))>>
mockBranches == <<Entry(SeedBranch(B1, P1, C2id)), Entry(SeedBranch(B2, P2, C3id))>>
mockEdges == <<Entry([id |-> generateId(EDGE, "1"), from |-> C1id, to |-> C2id,
                      type |-> "parent"])>>
\* the second task and the second issue were updated after the first ones
Time1 == 1
mockTasks == <<Entry([id |-> generateId(TASK, "1"), title |-> "run",
                      status |-> "todo", priority |-> "low", createdAt |-> Time0,
                      updatedAt |-> Time0, labels |-> <<>>, projectId |-> P1]),
               Entry([id |-> generateId(TASK, "2"), title |-> "run",
                      status |-> "done", priority |-> "low", assignee |-> "ann",
                      createdAt |-> Time0, updatedAt |-> Time1, labels |-> <<>>,
                      projectId |-> P1]),
               Entry([id |-> generateId(TASK, "3"), title |-> "run",
                      status |-> "todo", priority |-> "high", createdAt |-> Time0,
                      updatedAt |-> Time0, labels |-> <<>>, projectId |-> P1])>>
mockIssues == <<Entry([id |-> generateId(ISSUE, "1"), number |-> 1,
                       title |-> "bug", description |-> "bug",
                       status |-> "open", priority |-> "low", author |-> "john",
                       createdAt |-> Time0, updatedAt |-> Time0, labels |-> <<>>,
                       comments |-> <<>>, projectId |-> P1]),
                Entry([id |-> generateId(ISSUE, "2"), number |-> 2,
                       title |-> "bug", description |-> "bug",
                       status |-> "closed", priority |-> "high", author |-> "john",
                       assignee |-> "ann",
                       createdAt |-> Time0, updatedAt |-> Time1, labels |-> <<>>,
                       comments |-> <<>>, projectId |-> P1])>>
mockPullRequests ==
    <<Entry([id |-> generateId(PR, "1"), number |-> 1, title |-> "fix",
             description |-> "fix", fromBranch |-> Dev, toBranch |-> Main,
             status |-> "open", author |-> "john", reviewers |-> <<>>,
             createdAt |-> Time0, updatedAt |-> Time0, conflicts |-> <<>>,
             projectId |-> P1])>>

NoCall == [status |-> "idle"]

\* the store right after construction: initializeWithMockData()
Init ==
    /\ projects = mockProjects
    /\ commits = mockCommits
    /\ branches = mockBranches
    /\ tasks = mockTasks
    /\ issues = mockIssues
    /\ pullRequests = mockPullRequests
    /\ commitEdges = mockEdges
    /\ initialized = TRUE
    /\ now = 1
    /\ calls = [c \in 1..NumCallers |-> NoCall]
    /\ last = [op |-> "new"]
    /\ ops = 0

-----------------------------------------------------------------------------
(* Project operations.                                                     *)

\* createProject: { ...projectData, id, createdAt: now, updatedAt: now }
NewProject(projectData, id, t) ==
    Spread(projectData, [id |-> id, createdAt |-> t, updatedAt |-> t])

\* createProject storing the project without validating it
CreateProjectStoresUnchecked(project) == TRUE

\* createProject stores the project only when validateOrThrow returns
CreateProjectStores(project) == validateOrThrow("project", project)

CreateProject(projectData, suffix) ==
    LET id == generateId(PROJ, suffix)
        project == NewProject(projectData, id, now)
    IN  /\ ops' = ops + 1
        /\ IF CreateProjectStores(project)
           THEN /\ projects' = MapSet(projects, id, project)
                /\ last' = [op |-> "createProject", outcome |-> "ok",
                            request |-> projectData, value |-> project]
           ELSE /\ projects' = projects
                /\ last' = [op |-> "createProject", outcome |-> "throw",
                            request |-> projectData]
        /\ UNCHANGED <<commits, branches, tasks, issues, pullRequests, commitEdges,
                       initialized, now, calls>>

\* updateProject: { ...project, ...updates, id, updatedAt: new Date() }
\* the merge without the trailing id: { ...project, ...updates, updatedAt }
UpdatedProjectKeepsPartialId(project, updates, id, t) ==
    Spread(Spread(project, updates), [updatedAt |-> t])

UpdatedProject(project, updates, id, t) ==
    Spread(Spread(project, updates), [id |-> id, updatedAt |-> t])

UpdateProject(id, updates) ==
    /\ ops' = ops + 1
    /\ IF ~MapHas(projects, id)
       THEN /\ projects' = projects
            /\ last' = [op |-> "updateProject", outcome |-> "null", id |-> id]
       ELSE LET updatedProject == UpdatedProject(MapGet(projects, id), updates, id, now)
            IN  IF validateOrThrow("project", updatedProject)
                THEN /\ projects' = MapSet(projects, id, updatedProject)
                     /\ last' = [op |-> "updateProject", outcome |-> "ok", id |-> id,
                                 updates |-> updates, value |-> updatedProject]
                ELSE /\ projects' = projects
                     /\ last' = [op |-> "updateProject", outcome |-> "throw", id |-> id,
                                 updates |-> updates]
    /\ UNCHANGED <<commits, branches, tasks, issues, pullRequests, commitEdges,
                   initialized, now, calls>>

\* deleteProject: this.projects.delete(id)
DeleteProject(id) ==
    /\ ops' = ops + 1
    /\ projects' = MapDelete(projects, id)
    /\ last' = [op |-> "deleteProject", id |-> id,
                outcome |-> IF MapHas(projects, id) THEN "true" ELSE "false"]
    /\ UNCHANGED <<commits, branches, tasks, issues, pullRequests, commitEdges,
                   initialized, now, calls>>

-----------------------------------------------------------------------------
(* Branch operations.                                                      *)

NewBranch(projectId, branchData, id, t) ==
    [id |-> id, name |-> branchData.name, projectId |-> projectId,
     headCommitId |-> branchData.fromCommitId, createdAt |-> t,
     createdBy |-> CurrentUser, isDefault |-> FALSE, isProtected |-> FALSE,
     lastActivity |-> t]

\* createBranch: TRUE iff both validateOrThrow calls return
\* createBranch checking the request only, not the branch it builds
CreateBranchChecksRequestOnly(projectId, branchData, id, t) ==
    validateOrThrow("createBranchRequest", branchData)

CreateBranchAccepts(projectId, branchData, id, t) ==
    /\ validateOrThrow("createBranchRequest", branchData)
    /\ validateOrThrow("branch", NewBranch(projectId, branchData, id, t))

CreateBranch(projectId, branchData, suffix) ==
    LET id == generateId(BRANCH, suffix)
        branch == NewBranch(projectId, branchData, id, now)
    IN  /\ ops' = ops + 1
        /\ IF CreateBranchAccepts(projectId, branchData, id, now)
           THEN /\ branches' = MapSet(branches, id, branch)
                /\ last' = [op |-> "createBranch", outcome |-> "ok",
                            projectId |-> projectId, request |-> branchData,
                            value |-> branch]
           ELSE /\ branches' = branches
                /\ last' = [op |-> "createBranch", outcome |-> "throw",
                            projectId |-> projectId, request |-> branchData]
        /\ UNCHANGED <<projects, commits, tasks, issues, pullRequests, commitEdges,
                       initialized, now, calls>>

\* updateBranch: { ...branch, ...updates, id }
UpdatedBranch(branch, updates, id) ==
    Spread(Spread(branch, updates), [id |-> id])

\* updateBranch storing the merged branch without validating it
UpdateBranchStoresUnchecked(updatedBranch) == TRUE

\* updateBranch stores the merged branch only when validateOrThrow returns
UpdateBranchStores(updatedBranch) == validateOrThrow("branch", updatedBranch)

\* updateBranch(id, updates) on the branch map brs: its outcome and the map after it
updateBranch(brs, id, updates) ==
    IF ~MapHas(brs, id)
    THEN [outcome |-> "null", branches |-> brs]
    ELSE LET updatedBranch == UpdatedBranch(MapGet(brs, id), updates, id)
         IN  IF UpdateBranchStores(updatedBranch)
             THEN [outcome |-> "ok", branches |-> MapSet(brs, id, updatedBranch),
                   value |-> updatedBranch]
             ELSE [outcome |-> "throw", branches |-> brs]

UpdateBranch(id, updates) ==
    LET r == updateBranch(branches, id, updates)
    IN  /\ ops' = ops + 1
        /\ branches' = r.branches
        /\ last' = CASE r.outcome = "ok" ->
                          [op |-> "updateBranch", outcome |-> "ok", id |-> id,
                           updates |-> updates, value |-> r.value]
                     [] r.outcome = "throw" ->
                          [op |-> "updateBranch", outcome |-> "throw", id |-> id,
                           updates |-> updates]
                     [] OTHER -> [op |-> "updateBranch", outcome |-> "null", id |-> id]
        /\ UNCHANGED <<projects, commits, tasks, issues, pullRequests, commitEdges,
                       initialized, now, calls>>

-----------------------------------------------------------------------------
(* Commit operations.                                                      *)

\* Array.from(this.branches.values()).find(branch => branch.projectId === projectId
\*     && branch.name === branchName): the positions that match
Matching(brs, projectId, branchName) ==
    {i \in 1..Len(brs) : brs[i].val.projectId = projectId /\ brs[i].val.name = branchName}

HasTargetBranch(brs, projectId, branchName) == Matching(brs, projectId, branchName) # {}

\* find returns the first match in insertion order
TargetBranch(brs, projectId, branchName) ==
    LET ms == Matching(brs, projectId, branchName)
    IN  brs[CHOOSE i \in ms : \A j \in ms : i <= j].val

CountChanges(taskChanges, changeType) ==
    Len(SelectSeq(taskChanges, LAMBDA t : t.changeType = changeType))

\* const parentIds = targetBranch ? [targetBranch.headCommitId] : []
ParentIds(brs, projectId, branchName) ==
    IF HasTargetBranch(brs, projectId, branchName)
    THEN <<TargetBranch(brs, projectId, branchName).headCommitId>>
    ELSE <<>>

NewCommit(commitData, id, hash, timestamp, parentIds) ==
    [id |-> id,
     hash |-> hash,
     shortHash |-> substring(hash, 0, ShortHashLen),
     message |-> commitData.message,
     author |-> commitData.author,
     timestamp |-> timestamp,
     parentIds |-> parentIds,
     branchName |-> commitData.branchName,
     changedTasks |-> commitData.taskChanges,
     stats |-> [tasksAdded |-> CountChanges(commitData.taskChanges, "created"),
                tasksModified |-> CountChanges(commitData.taskChanges, "modified"),
                tasksDeleted |-> CountChanges(commitData.taskChanges, "deleted"),
                totalChanges |-> Len(commitData.taskChanges)]]

\* createCommit up to its await: an async function runs synchronously until its
\* first await, and updateBranch, which has no await, runs to its end inside the
\* call expression `await this.updateBranch(...)`.
CreateCommitCall(c, projectId, commitData, suffix, draw) ==
    /\ ops' = ops + 1
    /\ IF ~validateOrThrow("createCommitRequest", commitData)
       THEN /\ calls' = [calls EXCEPT ![c] = [status |-> "threw", matched |-> FALSE,
                                              stored |-> FALSE]]
            /\ last' = [op |-> "createCommit", outcome |-> "throw", caller |-> c,
                        request |-> commitData]
            /\ UNCHANGED <<commits, branches>>
       ELSE LET id == generateId(COMMIT, suffix)
                found == HasTargetBranch(branches, projectId, commitData.branchName)
                commit == NewCommit(commitData, id, generateCommitHash(draw), now,
                                    ParentIds(branches, projectId, commitData.branchName))
            IN  /\ commits' = MapSet(commits, id, commit)
                /\ IF found
                   THEN LET targetBranch == TargetBranch(branches, projectId,
                                                         commitData.branchName)
                            r == updateBranch(branches, targetBranch.id,
                                     [headCommitId |-> id, lastActivity |-> now])
                        IN  /\ branches' = r.branches
                            /\ calls' = [calls EXCEPT ![c] =
                                   [status |-> "awaiting", matched |-> TRUE, stored |-> TRUE,
                                    projectId |-> projectId, commit |-> commit,
                                    branchId |-> targetBranch.id,
                                    inner |-> r.outcome, seq |-> ops']]
                            /\ last' = [op |-> "createCommit", outcome |-> "await",
                                        caller |-> c, request |-> commitData]
                   ELSE /\ branches' = branches
                        /\ calls' = [calls EXCEPT ![c] =
                               [status |-> "returned", matched |-> FALSE, stored |-> TRUE,
                                projectId |-> projectId, commit |-> commit, seq |-> ops']]
                        /\ last' = [op |-> "createCommit", outcome |-> "ok", caller |-> c,
                                    request |-> commitData]
    /\ UNCHANGED <<projects, tasks, issues, pullRequests, commitEdges, initialized, now>>

\* createCommit after its await: the rejection of updateBranch is rethrown,
\* otherwise the commit is returned
CreateCommitResume(c) ==
    /\ calls[c].status = "awaiting"
    /\ calls' = [calls EXCEPT ![c].status =
                    IF calls[c].inner = "throw" THEN "threw" ELSE "returned"]
    /\ last' = [op |-> "createCommit", caller |-> c,
                outcome |-> IF calls[c].inner = "throw" THEN "throw" ELSE "ok"]
    /\ UNCHANGED <<store, now, ops>>

-----------------------------------------------------------------------------
(* Pull request operations.                                                *)

\* Array.from(this.pullRequests.values()).filter(pr => pr.projectId === projectId).length + 1
NextNumber(prs, projectId) ==
    Cardinality({i \in 1..Len(prs) : prs[i].val.projectId = projectId}) + 1

NewPullRequest(projectId, prData, id, number, t) ==
    [id |-> id, number |-> number, title |-> prData.title,
     description |-> prData.description, fromBranch |-> prData.fromBranch,
     toBranch |-> prData.toBranch, status |-> "open", author |-> CurrentUser,
     reviewers |-> IF "reviewers" \in DOMAIN prData THEN prData.reviewers ELSE <<>>,
     createdAt |-> t, updatedAt |-> t, conflicts |-> <<>>, projectId |-> projectId]

CreatePullRequest(projectId, prData, suffix) ==
    LET id == generateId(PR, suffix)
        pullRequest == NewPullRequest(projectId, prData, id,
                                      NextNumber(pullRequests, projectId), now)
    IN  /\ ops' = ops + 1
        /\ IF /\ validateOrThrow("createPullRequestRequest", prData)
              /\ validateOrThrow("pullRequest", pullRequest)
           THEN /\ pullRequests' = MapSet(pullRequests, id, pullRequest)
                /\ last' = [op |-> "createPullRequest", outcome |-> "ok",
                            projectId |-> projectId, request |-> prData,
                            value |-> pullRequest]
           ELSE /\ pullRequests' = pullRequests
                /\ last' = [op |-> "createPullRequest", outcome |-> "throw",
                            projectId |-> projectId, request |-> prData]
        /\ UNCHANGED <<projects, commits, branches, tasks, issues, commitEdges,
                       initialized, now, calls>>

\* the clock of new Date() advances
Tick ==
    /\ now < MaxTime
    /\ now' = now + 1
    /\ ops' = ops + 1
    /\ last' = [op |-> "tick", outcome |-> "ok"]
    /\ UNCHANGED <<store, calls>>

-----------------------------------------------------------------------------
(* The values the operations are called with.                              *)

ProjectIdArgs == {P1, generateId(PROJ, "k"), Ghost}
BranchIdArgs == {B1, generateId(BRANCH, "k"), Ghost}
OwnerArgs == {P1, P2, BadId}

ProjectInputs ==
    {[name |-> "gym", description |-> Empty, owner |-> "ann",
      isPrivate |-> FALSE, defaultBranch |-> Main, starCount |-> 0, forkCount |-> 0],
     [name |-> Blank, description |-> Empty, owner |-> "ann",
      isPrivate |-> FALSE, defaultBranch |-> Main, starCount |-> 0, forkCount |-> 0]}

ProjectPartials ==
    {[name |-> "gym"],
     [name |-> Empty],
     [id |-> P2, isPrivate |-> TRUE],
     [defaultBranch |-> Dev],
     [updatedAt |-> Time0, starCount |-> 1],
     [createdAt |-> MaxTime + 1]}

BranchPartials ==
    {[headCommitId |-> C1id],
     [headCommitId |-> Ghost],
     [name |-> Dev, headCommitId |-> BadId],
     [name |-> Dev],
     [isDefault |-> TRUE],
     [id |-> B2, isProtected |-> TRUE],
     [projectId |-> P2]}

BranchRequests ==
    {[name |-> Dev, fromCommitId |-> C1id],
     [name |-> Main, fromCommitId |-> C2id],
     [name |-> Dev, fromCommitId |-> Ghost],
     [name |-> Blank, fromCommitId |-> BadId]}

OneChange == <<[taskId |-> generateId(TASK, "1"), changeType |-> "created"]>>

CommitRequests ==
    {[message |-> "fix", branchName |-> Main, taskChanges |-> OneChange,
      author |-> John],
     [message |-> "fix", branchName |-> Dev, taskChanges |-> <<>>,
      author |-> John],
     [message |-> Empty, branchName |-> Main, taskChanges |-> <<>>, author |-> NoEmail]}

PullRequestRequests ==
    {[title |-> "fix", description |-> "fix",
      fromBranch |-> Dev, toBranch |-> Main],
     [title |-> Empty, description |-> "fix",
      fromBranch |-> Dev, toBranch |-> Main, reviewers |-> <<>>]}

-----------------------------------------------------------------------------------------------------------------------------------------------------
(* The store used by one caller at a time: an operation starts only when   *)
(* no call is suspended at an await.                                       *)

Quiet == \A c \in DOMAIN calls : calls[c].status \notin {"awaiting", "resetting"}
MayStart == Quiet /\ ops < MaxOps

DoTick == MayStart /\ Tick
DoCreateProject ==
    MayStart /\ \E d \in ProjectInputs, s \in Suffixes : CreateProject(d, s)
DoUpdateProject ==
    MayStart /\ \E id \in ProjectIdArgs, u \in ProjectPartials : UpdateProject(id, u)
DoDeleteProject ==
    MayStart /\ \E id \in ProjectIdArgs : DeleteProject(id)
DoCreateBranch ==
    MayStart /\ \E p \in OwnerArgs, d \in BranchRequests, s \in Suffixes :
                    CreateBranch(p, d, s)
DoUpdateBranch ==
    MayStart /\ \E id \in BranchIdArgs, u \in BranchPartials : UpdateBranch(id, u)
DoCreateCommit ==
    MayStart /\ \E p \in OwnerArgs, d \in CommitRequests, s \in Suffixes, h \in HashDraws :
                    CreateCommitCall(1, p, d, s, h)
DoCreatePullRequest ==
    MayStart /\ \E p \in OwnerArgs, d \in PullRequestRequests, s \in Suffixes :
                    CreatePullRequest(p, d, s)
DoResume == \E c \in DOMAIN calls : CreateCommitResume(c)

Next ==
    \/ DoTick
    \/ DoCreateProject
    \/ DoUpdateProject
    \/ DoDeleteProject
    \/ DoCreateBranch
    \/ DoUpdateBranch
    \/ DoCreateCommit
    \/ DoCreatePullRequest
    \/ DoResume

Spec == Init /\ [][Next]_vars

-----------------------------------------------------------------------------
(* Concurrent createCommit calls: each caller makes one call, and the      *)
(* calls interleave at their await.                                        *)

ConcCreateCommit ==
    \E c \in DOMAIN calls :
        /\ calls[c].status = "idle"
        /\ \E p \in OwnerArgs, d \in CommitRequests, s \in Suffixes, h \in HashDraws :
              CreateCommitCall(c, p, d, s, h)

NextConc ==
    \/ Tick
    \/ ConcCreateCommit
    \/ DoResume

SpecConc == Init /\ [][NextConc]_vars

-----------------------------------------------------------------------------
(* Read operations.  None of them writes to the store; each is a function   *)
(* of the store at the moment it is called.                                 *)

\* getProject: this.projects.get(id) || null
Null == [null |-> TRUE]
getProject(prjs, id) == IF MapHas(prjs, id) THEN MapGet(prjs, id) ELSE Null

Alphabet == <<"a", "b", "c", "d", "e", "f", "g", "h", "i", "j", "k", "l", "m",
              "n", "o", "p", "q", "r", "s", "t", "u", "v", "w", "x", "y", "z">>
Capitals == <<"A", "B", "C", "D", "E", "F", "G", "H", "I", "J", "K", "L", "M",
              "N", "O", "P", "Q", "R", "S", "T", "U", "V", "W", "X", "Y", "Z">>

\* String.prototype.toLowerCase, as the characters of the result
toLowerCase(str) ==
    [i \in 1..Len(Chars(str)) |->
        IF \E k \in 1..Len(Capitals) : Capitals[k] = Chars(str)[i]
        THEN Alphabet[CHOOSE k \in 1..Len(Capitals) : Capitals[k] = Chars(str)[i]]
        ELSE Chars(str)[i]]

\* String.prototype.includes, on characters
includes(cs, sub) ==
    \E i \in 0..(Len(cs) - Len(sub)) : SubSeq(cs, i + 1, i + Len(sub)) = sub

\* a slice that always starts at the first element
sliceFromFirst(seq, start, end) ==
    SubSeq(seq, 1, IF end - start > Len(seq) THEN Len(seq) ELSE end - start)

\* Array.prototype.slice(start, end)
slice(seq, start, end) ==
    LET n == Len(seq)
        from == IF start < 0 THEN (IF n + start < 0 THEN 0 ELSE n + start)
                ELSE IF start > n THEN n ELSE start
        to == IF end < 0 THEN (IF n + end < 0 THEN 0 ELSE n + end)
              ELSE IF end > n THEN n ELSE end
    IN  SubSeq(seq, from + 1, to)

\* Array.prototype.sort((a, b) => key(b) - key(a)), keys[i] being the key of
\* seq[i]: the stable descending sort
sortDesc(seq, keys) ==
    LET pos(i) == 1 + Cardinality({j \in 1..Len(seq) :
                        \/ keys[j] > keys[i]
                        \/ (keys[j] = keys[i] /\ j < i)})
    IN  [p \in 1..Len(seq) |-> seq[CHOOSE i \in 1..Len(seq) : pos(i) = p]]

\* seq.map(entity => entity[field].getTime())
TimesOf(seq, field) == [i \in 1..Len(seq) |-> seq[i][field]]

DefaultLimit == 50
DefaultOffset == 0

\* const { limit = 50, offset = 0, filters = {} } = options
LimitOf(options) == IF "limit" \in DOMAIN options THEN options.limit ELSE DefaultLimit
OffsetOf(options) == IF "offset" \in DOMAIN options THEN options.offset ELSE DefaultOffset
FiltersOf(options) == IF "filters" \in DOMAIN options THEN options.filters ELSE << >>

\* if (filters.f): the filter is given and is not the empty string
Given(filters, f) == f \in DOMAIN filters /\ filters[f] # ""

\* entity.f === filters.f, for a field the entity may lack
FieldIs(entity, filters, f) == f \in DOMAIN entity /\ entity[f] = filters[f]

\* the page and the pagination record every list operation ends with
Paginated(list, options) ==
    [data |-> slice(list, OffsetOf(options), OffsetOf(options) + LimitOf(options)),
     pagination |-> [total |-> Len(list),
                     limit |-> LimitOf(options),
                     offset |-> OffsetOf(options),
                     hasNext |-> OffsetOf(options) + LimitOf(options) < Len(list),
                     hasPrev |-> OffsetOf(options) > 0]]

\* Array.from(map.values()).filter(entity => entity.projectId === projectId)
OfProject(m, projectId) ==
    SelectSeq(MapValues(m), LAMBDA entity : entity.projectId = projectId)

getProjects(options) ==
    LET filters == FiltersOf(options)
        kept == SelectSeq(MapValues(projects), LAMBDA project :
                  /\ Given(filters, "search") =>
                        \/ includes(toLowerCase(project.name), toLowerCase(filters.search))
                        \/ includes(toLowerCase(project.description),
                                    toLowerCase(filters.search))
                  /\ Given(filters, "owner") => project.owner = filters.owner
                  /\ "isPrivate" \in DOMAIN filters =>
                        project.isPrivate = filters.isPrivate)
    IN  Paginated(sortDesc(kept, TimesOf(kept, "updatedAt")), options)

\* the names of the branches stored with projectId
projectBranchNames(projectId) ==
    {branches[i].val.name : i \in {k \in 1..Len(branches) :
                                      branches[k].val.projectId = projectId}}

getCommits(projectId, options) ==
    LET filters == FiltersOf(options)
        kept == SelectSeq(MapValues(commits), LAMBDA commit :
                  /\ commit.branchName \in projectBranchNames(projectId)
                  /\ Given(filters, "branch") => commit.branchName = filters.branch
                  /\ Given(filters, "author") =>
                        \/ includes(Chars(commit.author.email), Chars(filters.author))
                        \/ includes(Chars(commit.author.name), Chars(filters.author)))
    IN  Paginated(sortDesc(kept, TimesOf(kept, "timestamp")), options)

\* a getTasks that cuts the page out of the project's tasks and filters the page
getTasksPagesFirst(projectId, options) ==
    LET filters == FiltersOf(options)
        page == Paginated(sortDesc(OfProject(tasks, projectId),
                                   TimesOf(OfProject(tasks, projectId), "updatedAt")),
                          options)
    IN  [page EXCEPT !.data = SelectSeq(page.data, LAMBDA task :
                  /\ Given(filters, "status") => task.status = filters.status
                  /\ Given(filters, "assignee") => FieldIs(task, filters, "assignee")
                  /\ Given(filters, "priority") => task.priority = filters.priority)]

getTasks(projectId, options) ==
    LET filters == FiltersOf(options)
        kept == SelectSeq(MapValues(tasks), LAMBDA task :
                  /\ task.projectId = projectId
                  /\ Given(filters, "status") => task.status = filters.status
                  /\ Given(filters, "assignee") => FieldIs(task, filters, "assignee")
                  /\ Given(filters, "priority") => task.priority = filters.priority)
    IN  Paginated(sortDesc(kept, TimesOf(kept, "updatedAt")), options)

getIssues(projectId, options) ==
    LET filters == FiltersOf(options)
        kept == SelectSeq(MapValues(issues), LAMBDA issue :
                  /\ issue.projectId = projectId
                  /\ Given(filters, "status") => issue.status = filters.status
                  /\ Given(filters, "assignee") => FieldIs(issue, filters, "assignee")
                  /\ Given(filters, "priority") => issue.priority = filters.priority)
    IN  Paginated(sortDesc(kept, TimesOf(kept, "updatedAt")), options)

getPullRequests(projectId, options) ==
    LET filters == FiltersOf(options)
        kept == SelectSeq(MapValues(pullRequests), LAMBDA pr :
                  /\ pr.projectId = projectId
                  /\ Given(filters, "status") => pr.status = filters.status
                  /\ Given(filters, "author") => pr.author = filters.author)
    IN  Paginated(sortDesc(kept, TimesOf(kept, "updatedAt")), options)

\* every stored commit, of whatever project
storedCommits(projectId) == MapValues(commits)

\* the stored commits whose branchName is the name of a branch of projectId
projectCommits(projectId) ==
    SelectSeq(MapValues(commits), LAMBDA commit :
        \E i \in 1..Len(branches) :
            /\ branches[i].val.projectId = projectId
            /\ branches[i].val.name = commit.branchName)

\* the edges whose endpoints are stored commits, of whatever project
storedEdges(projectId) ==
    SelectSeq(MapValues(commitEdges), LAMBDA edge :
        MapHas(commits, edge.from) /\ MapHas(commits, edge.to))

\* the edges whose endpoints are stored commits found among the project's commits
projectEdges(projectId) ==
    SelectSeq(MapValues(commitEdges), LAMBDA edge :
        /\ MapHas(commits, edge.from)
        /\ MapHas(commits, edge.to)
        /\ \E i \in 1..Len(projectCommits(projectId)) :
              projectCommits(projectId)[i].id = MapGet(commits, edge.from).id
        /\ \E i \in 1..Len(projectCommits(projectId)) :
              projectCommits(projectId)[i].id = MapGet(commits, edge.to).id)

getProjectGraph(projectId) ==
    IF getProject(projects, projectId) = Null
    THEN Null
    ELSE [project |-> getProject(projects, projectId),
          commits |-> projectCommits(projectId),
          branches |-> OfProject(branches, projectId),
          edges |-> projectEdges(projectId),
          issues |-> OfProject(issues, projectId),
          pullRequests |-> OfProject(pullRequests, projectId),
          tasks |-> OfProject(tasks, projectId)]

\* new Date(NaN), which new Date(-Infinity) is
InvalidDate == [invalid |-> TRUE]

\* new Date(Math.max(...times)): Math.max of no arguments is -Infinity
newDateOfMax(times) ==
    IF times = {}
    THEN InvalidDate
    ELSE [time |-> CHOOSE t \in times : \A u \in times : u <= t]

\* a contributor count that counts commits, not distinct emails
CountsCommits(cs) == Len(cs)

\* new Set(projectCommits.map(commit => commit.author.email)).size
activeContributors(cs) == Cardinality({cs[i].author.email : i \in 1..Len(cs)})

getProjectStats(projectId) ==
    [totalCommits |-> Len(projectCommits(projectId)),
     totalBranches |-> Len(OfProject(branches, projectId)),
     totalTasks |-> Len(OfProject(tasks, projectId)),
     totalIssues |-> Len(OfProject(issues, projectId)),
     totalPullRequests |-> Len(OfProject(pullRequests, projectId)),
     activeContributors |-> activeContributors(projectCommits(projectId)),
     lastActivity |->
        newDateOfMax(
            {projectCommits(projectId)[i].timestamp :
                i \in 1..Len(projectCommits(projectId))}
            \cup {OfProject(branches, projectId)[i].lastActivity :
                    i \in 1..Len(OfProject(branches, projectId))})]

-----------------------------------------------------------------------------
(* The store with its read operations: a read is one more operation of    *)
(* the caller, and records what it returned.                               *)

Returns(op, projectId, options, result) ==
    /\ MayStart
    /\ ops' = ops + 1
    /\ last' = [op |-> op, outcome |-> "ok", projectId |-> projectId,
                options |-> options, result |-> result]
    /\ UNCHANGED <<store, now, calls>>

GetProjects(options) == Returns("getProjects", Empty, options, getProjects(options))
GetCommits(projectId, options) ==
    Returns("getCommits", projectId, options, getCommits(projectId, options))
GetTasks(projectId, options) ==
    Returns("getTasks", projectId, options, getTasks(projectId, options))
GetIssues(projectId, options) ==
    Returns("getIssues", projectId, options, getIssues(projectId, options))
GetPullRequests(projectId, options) ==
    Returns("getPullRequests", projectId, options, getPullRequests(projectId, options))
GetProjectGraph(projectId) ==
    Returns("getProjectGraph", projectId, << >>, getProjectGraph(projectId))
GetProjectStats(projectId) ==
    Returns("getProjectStats", projectId, << >>, getProjectStats(projectId))

\* limit and offset: none, a first page, a middle page, a page past the end, an
\* empty page, a limit above the cap
Pages ==
    {<< >>, [limit |-> 1], [limit |-> 2, offset |-> 1], [limit |-> 1, offset |-> 3],
     [limit |-> 0, offset |-> 1], [limit |-> 101], [offset |-> 2]}

ProjectQueries ==
    Pages \cup
    {[filters |-> [search |-> "GY"]],
     [filters |-> [search |-> Empty], limit |-> 2],
     [filters |-> [owner |-> "ann"], limit |-> 1],
     [filters |-> [isPrivate |-> FALSE], limit |-> 1, offset |-> 1],
     [filters |-> [search |-> "if", owner |-> "john"], limit |-> 1]}

CommitQueries ==
    Pages \cup
    {[filters |-> [branch |-> Dev]],
     [filters |-> [author |-> "x.io"], limit |-> 2],
     [filters |-> [author |-> "jo"]],
     [filters |-> [branch |-> Main, author |-> "Jo"], limit |-> 1, offset |-> 1]}

TaskQueries ==
    Pages \cup
    {[filters |-> [status |-> "done"]],
     [filters |-> [assignee |-> "ann"], limit |-> 1],
     [filters |-> [priority |-> "low"], limit |-> 1, offset |-> 1]}

PullRequestQueries ==
    Pages \cup
    {[filters |-> [status |-> "open"]],
     [filters |-> [author |-> CurrentUser], limit |-> 1],
     [filters |-> [status |-> "open", author |-> "john"], limit |-> 1, offset |-> 1]}

QueryProjectIds == {P1, P2, generateId(PROJ, "k")}

DoGetProjects == \E o \in ProjectQueries : GetProjects(o)
\* every query on the first project, the plain query on another one
Calls(projectIds, queries) ==
    ({P1} \X queries) \cup ((projectIds \ {P1}) \X {<< >>})

DoGetCommits ==
    \E c \in Calls({P1, generateId(PROJ, "k")}, CommitQueries) : GetCommits(c[1], c[2])
DoGetTasks == \E c \in Calls({P1, P2}, TaskQueries) : GetTasks(c[1], c[2])
DoGetIssues == \E c \in Calls({P1, P2}, TaskQueries) : GetIssues(c[1], c[2])
DoGetPullRequests ==
    \E c \in Calls({P1, P2}, PullRequestQueries) : GetPullRequests(c[1], c[2])

NextList ==
    \/ DoTick
    \/ DoCreateProject
    \/ DoUpdateProject
    \/ DoDeleteProject
    \/ DoCreateBranch
    \/ DoCreateCommit
    \/ DoCreatePullRequest
    \/ DoResume
    \/ DoGetProjects
    \/ DoGetCommits
    \/ DoGetTasks
    \/ DoGetIssues
    \/ DoGetPullRequests

SpecList == Init /\ [][NextList]_vars

DoGetProjectGraph == \E p \in QueryProjectIds \cup {Ghost} : GetProjectGraph(p)
DoGetProjectStats == \E p \in QueryProjectIds \cup {Ghost} : GetProjectStats(p)
DoListCommits == \E p \in QueryProjectIds : GetCommits(p, << >>)

NextGraph ==
    \/ DoTick
    \/ DoCreateProject
    \/ DoUpdateProject
    \/ DoDeleteProject
    \/ DoCreateBranch
    \/ DoUpdateBranch
    \/ DoCreateCommit
    \/ DoCreatePullRequest
    \/ DoResume
    \/ DoGetProjectGraph
    \/ DoGetProjectStats
    \/ DoListCommits

SpecGraph == Init /\ [][NextGraph]_vars

-----------------------------------------------------------------------------
(* Properties.                                                             *)

\* this step starts an operation (it is not the resumption of a suspended call)
Starts == ops' = ops + 1

\* this step is the part of createCommit, by caller c, that stores a commit
StoresCommit(c) ==
    /\ Starts
    /\ last'.op = "createCommit"
    /\ last'.outcome # "throw"
    /\ last'.caller = c

\* this step ends a createCommit call of caller c that found a matching branch
EndsMatched(c) ==
    /\ last'.op = "createCommit"
    /\ last'.caller = c
    /\ last'.outcome \in {"ok", "throw"}
    /\ calls'[c].matched

\* the branches of brs stored with projectId whose name is branchName
NamedBranches(brs, projectId, branchName) ==
    {i \in 1..Len(brs) : brs[i].val.projectId = projectId /\ brs[i].val.name = branchName}

\* C1: createCommit on a branch B of the project, named req.branchName, with head H
\* returns a commit with parentIds = <<H>>, and B's headCommitId is the new id and
\* B's lastActivity the new timestamp when the call returns.
C1_HeadAdvances ==
    [][\A c \in DOMAIN calls :
          /\ StoresCommit(c) =>
                \A i \in NamedBranches(branches, calls'[c].projectId,
                                       calls'[c].commit.branchName) :
                    /\ calls'[c].commit.parentIds = <<branches[i].val.headCommitId>>
                    /\ branches'[i].val.headCommitId = calls'[c].commit.id
                    /\ branches'[i].val.lastActivity = calls'[c].commit.timestamp
          /\ (EndsMatched(c) /\ last'.outcome = "ok") =>
                \A i \in NamedBranches(branches', calls'[c].projectId,
                                       calls'[c].commit.branchName) :
                    /\ branches'[i].val.headCommitId = calls'[c].commit.id
                    /\ branches'[i].val.lastActivity = calls'[c].commit.timestamp
      ]_vars

\* C2: whenever a createCommit call that found a matching branch ends, by return or by
\* throw, and its commit is in the commit collection, the branch's headCommitId is the
\* commit's id; and no createCommit call throws after it has stored its commit.
C2_CommitAndHeadTogether ==
    [][\A c \in DOMAIN calls :
          /\ EndsMatched(c) =>
                (MapHas(commits', calls'[c].commit.id) =>
                    /\ MapHas(branches', calls'[c].branchId)
                    /\ MapGet(branches', calls'[c].branchId).headCommitId
                          = calls'[c].commit.id)
          /\ (last'.op = "createCommit" /\ last'.caller = c /\ last'.outcome = "throw")
                => (~calls'[c].stored /\ (Starts => commits' = commits))
      ]_vars

\* C2 witness: a createCommit call that found a branch has stored its commit, moved
\* the head through updateBranch and returned
C2_Witness ==
    /\ last.op = "createCommit" /\ last.outcome = "ok"
    /\ calls[last.caller].matched
    /\ calls[last.caller].inner = "ok"
    /\ MapGet(branches, calls[last.caller].branchId).headCommitId
          = calls[last.caller].commit.id

\* C3: for concurrent createCommit calls on the same branch, every call's commit ends
\* up stored, with parentIds = <<the head the branch had when the commit was stored>>,
\* and once all calls have returned the head is the id of the commit stored last.
C3_ConcurrentCommits ==
    [][/\ \A c \in DOMAIN calls :
             StoresCommit(c) /\ calls'[c].matched =>
                 calls'[c].commit.parentIds
                    = <<MapGet(branches, calls'[c].branchId).headCommitId>>
       /\ \A c, d \in DOMAIN calls :
             (/\ c # d
              /\ calls'[c].status = "returned" /\ calls'[d].status = "returned"
              /\ calls'[c].matched /\ calls'[d].matched
              /\ calls'[c].branchId = calls'[d].branchId
              /\ calls'[c].seq < calls'[d].seq
              /\ \A e \in DOMAIN calls : calls'[e].status \in {"idle", "returned"}
                    /\ (calls'[e].status = "returned" => calls'[e].seq <= calls'[d].seq))
             => /\ MapHas(commits', calls'[c].commit.id)
                /\ MapGet(commits', calls'[c].commit.id) = calls'[c].commit
                /\ MapHas(commits', calls'[d].commit.id)
                /\ MapGet(commits', calls'[d].commit.id) = calls'[d].commit
                /\ MapGet(branches', calls'[d].branchId).headCommitId = calls'[d].commit.id
      ]_vars

\* C4: every stored branch's headCommitId is the id of a stored commit.
C4_HeadsResolve ==
    \A i \in 1..Len(branches) : MapHas(commits, branches[i].val.headCommitId)

\* C5: createBranch fails, and stores no branch, when req.fromCommitId is not the id
\* of a stored commit.
C5_CreateBranchNeedsCommit ==
    [][(last'.op = "createBranch" /\ ~MapHas(commits, last'.request.fromCommitId))
          => (last'.outcome = "throw" /\ branches' = branches)]_vars

\* C6: every parent link of every stored commit has a stored edge from the parent to
\* the child.
C6_EdgesFollowParents ==
    \A i \in 1..Len(commits) :
        \A k \in 1..Len(commits[i].val.parentIds) :
            \E e \in 1..Len(commitEdges) :
                /\ commitEdges[e].val.from = commits[i].val.parentIds[k]
                /\ commitEdges[e].val.to = commits[i].val.id

\* C7: createCommit with a branchName that names no branch of the project returns a
\* commit with no parents, adds that commit as one new entry of the commit
\* collection with every earlier entry kept, and leaves the branch collection as it
\* was.
C7_RootCommitFrame ==
    [][\A c \in DOMAIN calls :
          (/\ StoresCommit(c)
           /\ NamedBranches(branches, calls'[c].projectId,
                            calls'[c].commit.branchName) = {})
          => /\ last'.outcome = "ok"
             /\ calls'[c].status = "returned"
             /\ calls'[c].commit.parentIds = <<>>
             /\ branches' = branches
             /\ commits' = Append(commits, Entry(calls'[c].commit))
             /\ ~MapHas(commits, calls'[c].commit.id)
      ]_vars

\* C8: every stored project has exactly one branch with isDefault = TRUE, and that
\* branch is named by the project's defaultBranch.
C8_OneDefaultBranch ==
    \A p \in 1..Len(projects) :
        LET defaults == {i \in 1..Len(branches) :
                            /\ branches[i].val.projectId = projects[p].val.id
                            /\ branches[i].val.isDefault}
        IN  /\ Cardinality(defaults) = 1
            /\ \A i \in defaults : branches[i].val.name = projects[p].val.defaultBranch

UpdateStep(op) == Starts /\ last'.op = op /\ last'.outcome \in {"ok", "throw"}

\* the entity the update wrote is, field by field, the old value overlaid with the
\* partial, except for the fields named in forced, which have the given values
MergedExcept(new, old, partial, forced) ==
    /\ DOMAIN new = DOMAIN old \cup DOMAIN partial \cup DOMAIN forced
    /\ \A f \in DOMAIN new :
          new[f] = IF f \in DOMAIN forced THEN forced[f]
                   ELSE IF f \in DOMAIN partial THEN partial[f]
                   ELSE old[f]

\* an update step of op on the collection coll: a failed call changes nothing at all, a
\* successful one changes only the entry under id, writing a valid entity merged as
\* MergedExcept describes
AtomicUpdate(op, dataType, coll, collAfter, forced) ==
    UpdateStep(op) =>
        /\ last'.outcome = "throw" =>
              /\ store' = store
              /\ validateData(dataType,
                    [f \in DOMAIN MapGet(coll, last'.id) \cup DOMAIN last'.updates \cup {"id"}
                       |-> IF f = "id" THEN last'.id
                           ELSE IF f \in DOMAIN last'.updates THEN last'.updates[f]
                           ELSE MapGet(coll, last'.id)[f]]) # <<>>
        /\ last'.outcome = "ok" =>
              /\ MapKeys(collAfter) = MapKeys(coll)
              /\ \A k \in MapKeys(coll) \ {last'.id} : MapGet(collAfter, k) = MapGet(coll, k)
              /\ MapGet(collAfter, last'.id) = last'.value
              /\ validateData(dataType, last'.value) = <<>>
              /\ MergedExcept(last'.value, MapGet(coll, last'.id), last'.updates, forced)

OthersUnchanged(op) ==
    UpdateStep(op) =>
        /\ UNCHANGED <<commits, tasks, issues, pullRequests, commitEdges, initialized>>
        /\ op = "updateProject" => branches' = branches
        /\ op = "updateBranch" => projects' = projects

\* C9 as stated: updateProject and updateBranch either fail and leave the whole store
\* as it was, or succeed and store exactly the old value overlaid with the partial.
C9_FullMerge ==
    [][/\ AtomicUpdate("updateProject", "project", projects, projects', << >>)
       /\ AtomicUpdate("updateBranch", "branch", branches, branches', << >>)
       /\ OthersUnchanged("updateProject") /\ OthersUnchanged("updateBranch")]_vars

\* C9: updateProject and updateBranch either fail (exactly when the merged value is
\* invalid) and leave the whole store as it was, or succeed and store the old value
\* overlaid with the partial, except that id is the call's id and, for updateProject,
\* updatedAt is the time of the call.
C9_AtomicUpdate ==
    [][/\ AtomicUpdate("updateProject", "project", projects, projects',
                       [id |-> last'.id, updatedAt |-> now])
       /\ AtomicUpdate("updateBranch", "branch", branches, branches', [id |-> last'.id])
       /\ OthersUnchanged("updateProject") /\ OthersUnchanged("updateBranch")]_vars

\* C9 witness: an updateBranch call has thrown on an invalid merge, and the branch is
\* stored as seeded
C9_Witness ==
    /\ last.op = "updateBranch" /\ last.outcome = "throw"
    /\ MapGet(branches, last.id) = SeedBranch(B1, P1, C2id)

KeysAreIds(coll) == \A i \in 1..Len(coll) : coll[i].key = coll[i].val.id

AllKeysAreIds ==
    /\ KeysAreIds(projects) /\ KeysAreIds(commits) /\ KeysAreIds(branches)
    /\ KeysAreIds(tasks) /\ KeysAreIds(issues) /\ KeysAreIds(pullRequests)
    /\ KeysAreIds(commitEdges)

KeepsId(op, coll, collAfter) ==
    (UpdateStep(op) /\ last'.outcome = "ok") =>
        /\ last'.value.id = last'.id
        /\ MapGet(collAfter, last'.id) = last'.value
        /\ MapKeys(collAfter) = MapKeys(coll)
        /\ ("id" \in DOMAIN last'.updates /\ last'.updates.id # last'.id
              /\ MapHas(coll, last'.updates.id))
             => MapGet(collAfter, last'.updates.id) = MapGet(coll, last'.updates.id)

\* C10: an update whose partial carries another id returns and stores the entity with
\* the original id under the original key and creates or changes no entry under the
\* partial's id; in every state every collection's keys are the ids of its values.
C10_IdNeverChanges ==
    [][/\ AllKeysAreIds /\ AllKeysAreIds'
       /\ KeepsId("updateProject", projects, projects')
       /\ KeepsId("updateBranch", branches, branches')]_vars

\* C10 witness: updateProject succeeded with a partial carrying another project's id
C10_Witness ==
    /\ last.op = "updateProject" /\ last.outcome = "ok"
    /\ "id" \in DOMAIN last.updates /\ last.updates.id # last.id
    /\ MapHas(projects, last.updates.id)

\* C11: after a successful updateProject(id, partial), getProject(id) returns an
\* entity that has the partial's value in every field the partial names (other
\* than id and updatedAt) and an updatedAt strictly greater than the one the
\* project had before the call.
C11_UpdatedAtAdvances ==
    [][(UpdateStep("updateProject") /\ last'.outcome = "ok") =>
          LET got == getProject(projects', last'.id)
          IN  /\ got # Null
              /\ \A f \in DOMAIN last'.updates \ {"id", "updatedAt"} :
                    got[f] = last'.updates[f]
              /\ got.updatedAt > MapGet(projects, last'.id).updatedAt]_vars

\* C12: updateProject and updateBranch with an id that is not stored fail, and leave
\* every collection as it was.
C12_MissingIdFails ==
    [][/\ (Starts /\ last'.op = "updateProject" /\ ~MapHas(projects, last'.id))
             => (last'.outcome = "throw" /\ store' = store)
       /\ (Starts /\ last'.op = "updateBranch" /\ ~MapHas(branches, last'.id))
             => (last'.outcome = "throw" /\ store' = store)]_vars

\* C13: deleteProject(id) never throws; on a store that holds id it returns true and
\* removes that entry and nothing else; on a store that does not hold id (as after
\* a first delete) it returns false and leaves the store as it was.
C13_DeleteIdempotent ==
    [][(Starts /\ last'.op = "deleteProject") =>
          /\ last'.outcome \in {"true", "false"}
          /\ last'.outcome = "true" <=> MapHas(projects, last'.id)
          /\ ~MapHas(projects', last'.id)
          /\ projects' = SelectSeq(projects, LAMBDA e : e.val.id # last'.id)
          /\ UNCHANGED <<commits, branches, tasks, issues, pullRequests, commitEdges,
                         initialized>>
          /\ ~MapHas(projects, last'.id) => store' = store]_vars

\* C13 witness: a second deleteProject of a seeded project has returned false
C13_Witness ==
    /\ last.op = "deleteProject" /\ last.outcome = "false"
    /\ last.id = P1
    /\ ~MapHas(projects, P1)
    /\ ops = 2

ListOps == {"getProjects", "getCommits", "getTasks", "getIssues", "getPullRequests"}

Min(a, b) == IF a < b THEN a ELSE b
Max(a, b) == IF a > b THEN a ELSE b

\* the limit and the offset a list call asked for, with the documented defaults
AskedLimit == IF "limit" \in DOMAIN last.options THEN last.options.limit ELSE 50
AskedOffset == IF "offset" \in DOMAIN last.options THEN last.options.offset ELSE 0
AskedFilters == IF "filters" \in DOMAIN last.options THEN last.options.filters ELSE << >>

\* the filter f is supplied and the entity does not have the value it asks for
Fails(entity, f) ==
    /\ f \in DOMAIN AskedFilters
    /\ ~(f \in DOMAIN entity /\ entity[f] = AskedFilters[f])

\* the filter f is supplied and none of the given texts contains it
FailsText(texts, f) ==
    /\ f \in DOMAIN AskedFilters
    /\ \A i \in 1..Len(texts) : ~includes(texts[i], AskedFilters[f])

\* the stored entities the last list call asked for: those of its project that
\* satisfy every filter it supplied
Wanted ==
    CASE last.op = "getProjects" ->
            {e \in {projects[i].val : i \in 1..Len(projects)} :
                /\ "search" \in DOMAIN AskedFilters =>
                      \/ includes(toLowerCase(e.name), toLowerCase(AskedFilters.search))
                      \/ includes(toLowerCase(e.description),
                                  toLowerCase(AskedFilters.search))
                /\ ~Fails(e, "owner") /\ ~Fails(e, "isPrivate")}
      [] last.op = "getCommits" ->
            {e \in {commits[i].val : i \in 1..Len(commits)} :
                /\ \E b \in 1..Len(branches) :
                      /\ branches[b].val.projectId = last.projectId
                      /\ branches[b].val.name = e.branchName
                /\ ~Fails([branch |-> e.branchName], "branch")
                /\ ~FailsText(<<Chars(e.author.email), Chars(e.author.name)>>, "author")}
      [] last.op = "getTasks" ->
            {e \in {tasks[i].val : i \in 1..Len(tasks)} :
                /\ e.projectId = last.projectId
                /\ ~Fails(e, "status") /\ ~Fails(e, "assignee") /\ ~Fails(e, "priority")}
      [] last.op = "getIssues" ->
            {e \in {issues[i].val : i \in 1..Len(issues)} :
                /\ e.projectId = last.projectId
                /\ ~Fails(e, "status") /\ ~Fails(e, "assignee") /\ ~Fails(e, "priority")}
      [] last.op = "getPullRequests" ->
            {e \in {pullRequests[i].val : i \in 1..Len(pullRequests)} :
                /\ e.projectId = last.projectId
                /\ ~Fails(e, "status") /\ ~Fails(e, "author")}

\* C14: a list call over N matching entities with limit L and offset O returns
\* min(L, max(0, N - O)) entities, total = N, hasNext = (O + L < N) and
\* hasPrev = (O > 0).
C14_PageShape ==
    last.op \in ListOps =>
        LET N == Cardinality(Wanted)
            page == last.result
        IN  /\ Len(page.data) = Min(AskedLimit, Max(0, N - AskedOffset))
            /\ page.pagination.total = N
            /\ page.pagination.hasNext = (AskedOffset + AskedLimit < N)
            /\ page.pagination.hasPrev = (AskedOffset > 0)

\* C14 witness: a list call has returned a middle page, with entities before it and
\* entities after it
C14_Witness ==
    /\ last.op \in ListOps
    /\ AskedOffset > 0
    /\ AskedOffset + AskedLimit < Cardinality(Wanted)
    /\ Len(last.result.data) = 2
    /\ last.result.pagination.hasNext /\ last.result.pagination.hasPrev

\* C15: a list call never returns more than 100 entities nor reports a limit above
\* 100; with no limit given the limit is 50 and with no offset given the offset is 0.
C15_LimitCap ==
    last.op \in ListOps =>
        /\ Len(last.result.data) <= 100
        /\ last.result.pagination.limit <= 100
        /\ "limit" \notin DOMAIN last.options => last.result.pagination.limit = 50
        /\ "offset" \notin DOMAIN last.options => last.result.pagination.offset = 0

\* the time a list call sorts by
SortKey(e) == IF last.op = "getCommits" THEN e.timestamp ELSE e.updatedAt

\* C16: a list call returns the entities at positions [offset, offset + limit) of
\* the list of all matching entities, newest first: the page holds matching
\* entities only, each once, newest first; as many matching entities as the
\* offset says come before the page and none of them is older than the page's
\* first entity, and none of the remaining ones is newer than its last; total is
\* the number of all matching entities.
C16_FilterSortThenPage ==
    last.op \in ListOps =>
        LET data == last.result.data
            N == Cardinality(Wanted)
            inPage == {data[i] : i \in 1..Len(data)}
            rest == Wanted \ inPage
            before == Min(AskedOffset, N)
            newer(t) == Cardinality({e \in rest : SortKey(e) > t})
            notOlder(t) == Cardinality({e \in rest : SortKey(e) >= t})
            older(t) == Cardinality({e \in rest : SortKey(e) < t})
            notNewer(t) == Cardinality({e \in rest : SortKey(e) <= t})
        IN  /\ last.result.pagination.total = N
            /\ inPage \subseteq Wanted
            /\ Cardinality(inPage) = Len(data)
            /\ Len(data) = Min(AskedLimit, N - before)
            /\ \A i \in 1..(Len(data) - 1) : SortKey(data[i]) >= SortKey(data[i + 1])
            /\ Len(data) > 0 =>
                  /\ newer(SortKey(data[1])) <= before
                  /\ before <= notOlder(SortKey(data[1]))
                  /\ older(SortKey(data[Len(data)])) <= N - before - Len(data)
                  /\ N - before - Len(data) <= notNewer(SortKey(data[Len(data)]))

\* C16 witness: getTasks with a filter that leaves out a stored task has returned the
\* second page of one, which holds the task stored first because the other
\* matching task is newer
C16_Witness ==
    /\ last.op = "getTasks"
    /\ "priority" \in DOMAIN AskedFilters
    /\ AskedOffset = 1 /\ AskedLimit = 1
    /\ Cardinality(Wanted) = 2
    /\ Len(OfProject(tasks, last.projectId)) = 3
    /\ last.result.data = <<tasks[1].val>>

\* the elements of a sequence
Range(seq) == {seq[i] : i \in 1..Len(seq)}

\* the stored commits whose branchName is the name of some branch stored with
\* projectId
CommitsOf(projectId) ==
    {c \in {commits[i].val : i \in 1..Len(commits)} :
        \E b \in 1..Len(branches) :
            branches[b].val.projectId = projectId /\ branches[b].val.name = c.branchName}

\* C17: for an existing project P, the commits of getProjectGraph(P), the commits
\* counted by getProjectStats(P) and the commits listed by getCommits(P) without
\* filters are exactly the stored commits whose branchName is the name of at least
\* one branch whose projectId is P.
C17_ProjectCommits ==
    (/\ last.op \in {"getProjectGraph", "getProjectStats", "getCommits"}
     /\ MapHas(projects, last.projectId)) =>
        /\ last.op = "getProjectGraph" =>
              /\ Range(last.result.commits) = CommitsOf(last.projectId)
              /\ Len(last.result.commits) = Cardinality(CommitsOf(last.projectId))
        /\ last.op = "getProjectStats" =>
              last.result.totalCommits = Cardinality(CommitsOf(last.projectId))
        /\ (last.op = "getCommits" /\ last.options = << >>) =>
              /\ Range(last.result.data) = CommitsOf(last.projectId)
              /\ Len(last.result.data) = Cardinality(CommitsOf(last.projectId))
              /\ last.result.pagination.total = Cardinality(CommitsOf(last.projectId))

\* C17 witness: getProjectGraph has returned the commits of a project while a commit
\* of a branch name the project does not have is stored
C17_Witness ==
    /\ last.op = "getProjectGraph"
    /\ MapHas(projects, last.projectId)
    /\ Len(last.result.commits) >= 2
    /\ Len(last.result.commits) < Len(commits)

\* C18: for an existing project P, the edges of getProjectGraph(P) are exactly the
\* stored edges whose from and to are both ids of commits of the same result.
C18_ProjectEdges ==
    (last.op = "getProjectGraph" /\ last.result # Null) =>
        LET ids == {last.result.commits[i].id : i \in 1..Len(last.result.commits)}
            own == {e \in {commitEdges[i].val : i \in 1..Len(commitEdges)} :
                        e.from \in ids /\ e.to \in ids}
        IN  /\ Range(last.result.edges) = own
            /\ Len(last.result.edges) = Cardinality(own)

\* C18 witness: getProjectGraph has returned no edge for a project without commits
\* while an edge between other commits is stored
C18_Witness ==
    /\ last.op = "getProjectGraph" /\ last.result # Null
    /\ last.result.commits = <<>>
    /\ last.result.edges = <<>>
    /\ Len(commitEdges) > 0

\* C19: getProjectStats on a project without commits and without branches returns a
\* lastActivity that is not an invalid date.
C19_EmptyProjectStats ==
    (/\ last.op = "getProjectStats"
     /\ MapHas(projects, last.projectId)
     /\ CommitsOf(last.projectId) = {}
     /\ \A b \in 1..Len(branches) : branches[b].val.projectId # last.projectId)
    => last.result.lastActivity # InvalidDate

\* C20: for an existing project P, getProjectStats(P) agrees with getProjectGraph(P)
\* in the same state: the five totals are the lengths of the graph's lists,
\* activeContributors is the number of distinct author emails of the graph's
\* commits, and with at least one commit or branch lastActivity is the greatest
\* of the commits' timestamps and the branches' lastActivity values.
C20_StatsMatchGraph ==
    (last.op = "getProjectStats" /\ MapHas(projects, last.projectId)) =>
        LET graph == getProjectGraph(last.projectId)
            stats == last.result
            times == {graph.commits[i].timestamp : i \in 1..Len(graph.commits)}
                     \cup {graph.branches[i].lastActivity : i \in 1..Len(graph.branches)}
        IN  /\ stats.totalCommits = Len(graph.commits)
            /\ stats.totalBranches = Len(graph.branches)
            /\ stats.totalTasks = Len(graph.tasks)
            /\ stats.totalIssues = Len(graph.issues)
            /\ stats.totalPullRequests = Len(graph.pullRequests)
            /\ stats.activeContributors
                 = Cardinality({graph.commits[i].author.email : i \in 1..Len(graph.commits)})
            /\ times # {} =>
                  /\ "time" \in DOMAIN stats.lastActivity
                  /\ stats.lastActivity.time \in times
                  /\ \A t \in times : t <= stats.lastActivity.time

\* C20 witness: getProjectStats has returned the statistics of a project whose
\* commits share one author email and whose newest activity is after the seeding
C20_Witness ==
    /\ last.op = "getProjectStats" /\ MapHas(projects, last.projectId)
    /\ last.result.totalCommits >= 2
    /\ last.result.activeContributors = 1
    /\ last.result.lastActivity = [time |-> now]
    /\ now > Time0

-----------------------------------------------------------------------------
(* Pull request numbering.                                                 *)

NumbersOf(prs, projectId) ==
    {prs[i].val.number : i \in {j \in 1..Len(prs) : prs[j].val.projectId = projectId}}

CountOf(prs, projectId) ==
    Cardinality({i \in 1..Len(prs) : prs[i].val.projectId = projectId})

\* C21 (the assignment): a successful createPullRequest(P, req) returns a pull
\* request whose number is the count of the pull requests stored with projectId P
\* before the call plus one, whose status is open and whose conflicts are empty.
C21_NumberIsCountPlusOne ==
    [][(last'.op = "createPullRequest" /\ last'.outcome = "ok" /\ ops' = ops + 1) =>
          /\ last'.value.number = CountOf(pullRequests, last'.projectId) + 1
          /\ last'.value.status = "open"
          /\ last'.value.conflicts = <<>>]_vars

\* C21: the pull request numbers of every project are pairwise distinct and form
\* 1..n without gaps, n being the count of the project's stored pull requests.
C21_NumbersFormRange ==
    \A p \in OwnerArgs :
        /\ NumbersOf(pullRequests, p) = 1..CountOf(pullRequests, p)
        /\ \A i, j \in 1..Len(pullRequests) :
              (/\ pullRequests[i].val.projectId = p
               /\ pullRequests[j].val.projectId = p
               /\ pullRequests[i].val.number = pullRequests[j].val.number) => i = j

-----------------------------------------------------------------------------
(* Creates with a rejected payload.                                        *)

CreateOps == {"createProject", "createCommit", "createBranch", "createPullRequest"}

\* the payload of the create recorded in call breaks a rule of the validators the
\* create runs: the request validator, or the entity validator on the entity
\* built from the payload with a well-formed id and the time t
ViolatesRules(call, t) ==
    CASE call.op = "createProject" ->
           validateProject(NewProject(call.request, P1, t)) # <<>>
      [] call.op = "createCommit" ->
           validateCreateCommitRequest(call.request) # <<>>
      [] call.op = "createBranch" ->
           \/ validateCreateBranchRequest(call.request) # <<>>
           \/ validateBranch(NewBranch(call.projectId, call.request, B1, t)) # <<>>
      [] call.op = "createPullRequest" ->
           \/ validateCreatePullRequestRequest(call.request) # <<>>
           \/ validatePullRequest(NewPullRequest(call.projectId, call.request,
                                                 generateId(PR, "1"), 1, t)) # <<>>

\* C22: a createProject, createCommit, createBranch or createPullRequest call whose
\* payload violates its validation rules fails and leaves every collection as it
\* was: nothing is stored and no branch head moves.
C22_RejectedCreateStoresNothing ==
    [][(/\ ops' = ops + 1
        /\ last'.op \in CreateOps
        /\ ViolatesRules(last', now)) =>
          /\ last'.outcome = "throw"
          /\ store' = store]_vars

\* C22 witness: after an earlier successful create, createProject has been called
\* with a blank name, has failed, and the projects are those stored before it
C22_Witness ==
    /\ last.op = "createProject" /\ last.outcome = "throw"
    /\ last.request.name = Blank
    /\ Len(projects) = Len(mockProjects) + 1

-----------------------------------------------------------------------------
(* The validators called on their own (validation.ts): validateData        *)
(* applied to objects drawn from bounded sets, with fields that break a    *)
(* rule and with optional or required fields left out.                     *)


NoFields == [f \in {} |-> f]

TaskObjects ==
    {Spread(Spread(Spread([id |-> id, priority |-> priority, createdAt |-> Time0,
                     updatedAt |-> Time1, labels |-> <<>>, metadata |-> NoFields,
                     projectId |-> projectId, description |-> Empty],
                    title), status), assignee) :
        id \in {generateId(TASK, "1"), BadId},
        priority \in {"low", "asap"},
        projectId \in {P1, BadId},
        title \in {[title |-> "run"], [title |-> Blank], NoFields},
        status \in {[status |-> "todo"], [status |-> "doing"], NoFields},
        assignee \in {NoFields, [assignee |-> "ann"], [assignee |-> Empty]}}

ProjectObjects ==
    {[id |-> id, name |-> name, description |-> Empty, owner |-> owner,
      createdAt |-> Time0, updatedAt |-> Time0, isPrivate |-> FALSE,
      defaultBranch |-> branch, starCount |-> stars, forkCount |-> 0] :
        id \in {P1, BadId}, name \in {"gym", Blank}, owner \in {"ann", Empty},
        branch \in {Main, Empty}, stars \in {0, -1}}

BranchObjects ==
    {[id |-> id, name |-> name, projectId |-> projectId, headCommitId |-> head,
      createdAt |-> Time0, createdBy |-> by, isDefault |-> FALSE,
      isProtected |-> FALSE, lastActivity |-> Time0] :
        id \in {B1, BadId}, name \in {Dev, Blank}, projectId \in {P1, BadId},
        head \in {C1id, BadId}, by \in {CurrentUser, Empty}}

PullRequestObjects ==
    {[id |-> generateId(PR, "1"), number |-> number, title |-> title,
      description |-> "fix", fromBranch |-> from, toBranch |-> Main,
      status |-> status, author |-> author, reviewers |-> <<>>,
      createdAt |-> Time0, updatedAt |-> Time0, conflicts |-> <<>>,
      projectId |-> projectId] :
        number \in {1, -1}, title \in {"fix", Empty}, from \in {Dev, Blank},
        status \in {"open", "stale"}, author \in {"john", Empty},
        projectId \in {P1, BadId}}

\* commits whose shortHash is the start of their hash, the start of another
\* hash, or no hash at all
CommitObjects ==
    {Spread([id |-> C1id, hash |-> generateCommitHash(d), shortHash |-> short,
             message |-> message, timestamp |-> Time0, parentIds |-> <<>>,
             branchName |-> Main, changedTasks |-> <<>>], author) :
        d \in HashDraws,
        short \in {join(ShortChars(e)) : e \in HashDraws \cup {SeedDraw}} \cup {Ghost},
        message \in {"fix", Empty},
        author \in {[author |-> John], [author |-> NoEmail], NoFields}}

\* validateData(dataType, data) is called and returns
Validate(dataType, data) ==
    /\ last' = [op |-> "validateData", dataType |-> dataType, data |-> data,
                result |-> ValidationResult(validateData(dataType, data))]
    /\ UNCHANGED <<store, now, calls, ops>>

DoValidateTask == \E data \in TaskObjects : Validate("task", data)
DoValidateProject == \E data \in ProjectObjects : Validate("project", data)
DoValidateBranch == \E data \in BranchObjects : Validate("branch", data)
DoValidatePullRequest == \E data \in PullRequestObjects : Validate("pullRequest", data)
DoValidateCommit == \E data \in CommitObjects : Validate("commit", data)

NextValidate ==
    \/ DoValidateTask
    \/ DoValidateProject
    \/ DoValidateBranch
    \/ DoValidatePullRequest
    \/ DoValidateCommit

SpecValidate == Init /\ [][NextValidate]_vars

\* the rules of the validator of dataType, in the order they are checked
RulesOf(dataType, data) ==
    CASE dataType = "task" -> TaskRules(data)
      [] dataType = "project" -> ProjectRules(data)
      [] dataType = "branch" -> BranchRules(data)
      [] dataType = "pullRequest" -> PullRequestRules(data)

Occurrences(seq, x) == Cardinality({i \in 1..Len(seq) : seq[i] = x})

-----------------------------------------------------------------------------
(* Commit hashes.                                                          *)

\* C24 (generation): every commit stored by createCommit has a hash of 40
\* characters 0-9a-f and a shortHash equal to the first 7 characters of the hash.
C24_StoredHashShape ==
    \A i \in 1..Len(commits) :
        LET c == commits[i].val
        IN  /\ Len(Chars(c.hash)) = HashLen
            /\ \A k \in 1..HashLen : Chars(c.hash)[k] \in HexChars
            /\ c.shortHash = join(SubSeq(Chars(c.hash), 1, ShortHashLen))

\* C24: validateCommit rejects every commit whose shortHash is not the first 7
\* characters of its hash.
C24_ValidatorChecksPrefix ==
    (/\ last.op = "validateData" /\ last.dataType = "commit"
     /\ last.data.shortHash # join(SubSeq(Chars(last.data.hash), 1, ShortHashLen)))
    => ~last.result.isValid

-----------------------------------------------------------------------------
(* Project timestamps.                                                     *)

\* C25: every stored project has updatedAt >= createdAt.
C25_UpdatedAtNotBeforeCreatedAt ==
    \A i \in 1..Len(projects) :
        projects[i].val.updatedAt >= projects[i].val.createdAt

-----------------------------------------------------------------------------
(* Fresh ids.                                                              *)

\* the map before and after a create gained exactly the entry of id: id was no
\* key, the map grew by one, and every entry stored before is stored unchanged
AddsFresh(before, after, id) ==
    /\ ~MapHas(before, id)
    /\ Len(after) = Len(before) + 1
    /\ \A i \in 1..Len(before) :
          MapHas(after, before[i].key) /\ MapGet(after, before[i].key) = before[i].val

\* C26: every successful create assigns an id that is not already a key of its
\* collection: the collection grows by exactly one and every previously stored
\* entity is still stored unchanged.
C26_FreshId ==
    [][(Starts /\ last'.op \in CreateOps /\ last'.outcome \in {"ok", "await"}) =>
          CASE last'.op = "createProject" ->
                 AddsFresh(projects, projects', last'.value.id)
            [] last'.op = "createBranch" ->
                 AddsFresh(branches, branches', last'.value.id)
            [] last'.op = "createPullRequest" ->
                 AddsFresh(pullRequests, pullRequests', last'.value.id)
            [] last'.op = "createCommit" ->
                 AddsFresh(commits, commits', calls'[last'.caller].commit.id)]_vars

-----------------------------------------------------------------------------
(* The mock data generator (mock-data-generator.ts).  Every Math.random()  *)
(* value a function consumes is a parameter: rnd holds the draws.  Of the  *)
(* generated tasks, issues and pull requests the model keeps the fields    *)
(* the generated graph refers to.                                          *)

SAMPLE_USERS ==
    <<[name |-> "John Doe", email |-> "john@example.com"],
      [name |-> "Jane Smith", email |-> "jane@example.com"]>>

\* author.email.split('@')[0]
splitAtFirst(email) ==
    LET cs == Chars(email)
        at == {i \in 1..Len(cs) : cs[i] = "@"}
    IN  IF at = {} THEN email
        ELSE join(SubSeq(cs, 1, (CHOOSE i \in at : \A j \in at : i <= j) - 1))

\* randomDate(start, end) with Math.random() = r / 2
randomDate(start, end, r) == start + (r * (end - start)) \div 2
Halves == {0, 1}

\* new Date(2023, 0, 1) and new Date(2024, 0, 1)
Epoch == Time0

\* the description, a sentence built from the name, is kept as the empty string
generateProject(rnd) ==
    LET createdAt == randomDate(Epoch, now, rnd.created)
    IN  [id |-> generateId(PROJ, rnd.suffix),
         name |-> rnd.name,
         description |-> Empty,
         owner |-> splitAtFirst(SAMPLE_USERS[rnd.user].email),
         createdAt |-> createdAt,
         updatedAt |-> randomDate(createdAt, now, rnd.updated),
         isPrivate |-> rnd.isPrivate,
         defaultBranch |-> Main,
         starCount |-> rnd.stars,
         forkCount |-> rnd.forks]

generateTask(projectId, suffix) ==
    [id |-> generateId(TASK, suffix), title |-> "run", projectId |-> projectId]

generateIssue(projectId, suffix) ==
    [id |-> generateId(ISSUE, suffix), projectId |-> projectId]

generatePullRequest(projectId, suffix) ==
    [id |-> generateId(PR, suffix), fromBranch |-> "feature/enhancement",
     toBranch |-> Main, conflicts |-> <<>>, projectId |-> projectId]

\* generateCommit(branchName, parentIds, existingTasks): rnd.changes holds one
\* change type per generated task change, rnd.pick the index drawn in existingTasks
generateCommit(branchName, parentIds, existingTasks, rnd) ==
    LET hash == generateCommitHash(rnd.hash)
        task == IF existingTasks # <<>>
                THEN existingTasks[rnd.pick]
                ELSE generateTask(P1, rnd.taskSuffix)
        changedTasks == [i \in 1..Len(rnd.changes) |->
                            [taskId |-> task.id, changeType |-> rnd.changes[i]]]
    IN  [id |-> generateId(COMMIT, rnd.suffix),
         hash |-> hash,
         shortHash |-> substring(hash, 0, ShortHashLen),
         message |-> rnd.message,
         author |-> SAMPLE_USERS[rnd.user],
         timestamp |-> randomDate(Epoch, now, rnd.time),
         parentIds |-> parentIds,
         branchName |-> branchName,
         changedTasks |-> changedTasks,
         stats |-> [tasksAdded |-> CountChanges(changedTasks, "created"),
                    tasksModified |-> CountChanges(changedTasks, "modified"),
                    tasksDeleted |-> CountChanges(changedTasks, "deleted"),
                    totalChanges |-> Len(changedTasks)]]

branchNames ==
    {"main", "develop", "feature/task-management", "feature/ui-improvements",
     "hotfix/urgent-fix"}

generateBranch(projectId, headCommitId, rnd) ==
    LET createdAt == randomDate(Epoch, now, rnd.created)
    IN  [id |-> generateId(BRANCH, rnd.suffix),
         name |-> rnd.name,
         projectId |-> projectId,
         headCommitId |-> headCommitId,
         createdAt |-> createdAt,
         createdBy |-> splitAtFirst(SAMPLE_USERS[rnd.user].email),
         isDefault |-> (rnd.name = "main"),
         isProtected |-> (rnd.name = "main"),
         lastActivity |-> randomDate(createdAt, now, rnd.active)]

\* generateCommitEdges(commits): one parent edge per consecutive pair
generateCommitEdges(cs, suffixes) ==
    [k \in 1..(IF Len(cs) = 0 THEN 0 ELSE Len(cs) - 1) |->
        [id |-> generateId(EDGE, suffixes[k]),
         from |-> cs[k].id,
         to |-> cs[k + 1].id,
         type |-> "parent"]]

NumTasks == 10
NumCommits == 8
NumIssues == 5
NumPullRequests == 3

\* The builds of the module.  `const commits` stays a const in an ES2015 build
\* and becomes a var in an ES5 build.
Builds == {"es2015", "es5"}

\* What the name commits denotes inside the callback of
\* `const commits = Array.from({ length: 8 }, (_, index) => ...)`.  Array.from
\* runs the callback before the declaration is initialised, whatever the
\* callbacks before it have returned.
CommitsInCallback(built) == [bound |-> FALSE]

\* the callback at index (from 0): reading commits[index - 1] of an uninitialised
\* const throws a ReferenceError, indexing the undefined var a TypeError
CommitCallback(index, built, genTasks, rnd, build) ==
    IF index = 0
    THEN [outcome |-> "ok", value |-> generateCommit(Main, <<>>, genTasks, rnd)]
    ELSE LET seen == CommitsInCallback(built)
         IN  IF ~seen.bound
             THEN [outcome |-> "throw",
                   error |-> IF build = "es2015" THEN "ReferenceError" ELSE "TypeError"]
             ELSE LET parentIds == IF index <= Len(seen.value)
                                   THEN <<seen.value[index].id>>
                                   ELSE <<>>
                  IN  [outcome |-> "ok",
                       value |-> generateCommit(Main, parentIds, genTasks, rnd)]

\* Array.from({ length: n }, callback) for the commits, from index on, built
\* holding the results so far: the results of the callbacks in index order, or the
\* exception of the first callback that throws
RECURSIVE CommitsFrom(_, _, _, _, _, _)
CommitsFrom(index, n, built, genTasks, rnd, build) ==
    IF index = n
    THEN [outcome |-> "ok", value |-> built]
    ELSE LET r == CommitCallback(index, built, genTasks,
                                 [rnd.commit EXCEPT !.suffix = rnd.commitIds[index + 1]],
                                 build)
         IN  IF r.outcome = "throw"
             THEN r
             ELSE CommitsFrom(index + 1, n, Append(built, r.value), genTasks, rnd, build)

generateCompleteProject(rnd, build) ==
    LET project == generateProject(rnd.project)
        genTasks == [i \in 1..NumTasks |-> generateTask(project.id, rnd.taskIds[i])]
        built == CommitsFrom(0, NumCommits, <<>>, genTasks, rnd, build)
    IN  IF built.outcome = "throw"
        THEN built
        ELSE LET cs == built.value
                 mainBranch == [generateBranch(project.id, cs[Len(cs)].id, rnd.main)
                                   EXCEPT !.name = "main", !.isDefault = TRUE,
                                          !.isProtected = TRUE]
                 featureBranch == [generateBranch(project.id, cs[Len(cs) - 1].id,
                                                  rnd.feature)
                                      EXCEPT !.name = "feature/enhancements"]
             IN  [outcome |-> "ok",
                  value |-> [project |-> project,
                             branches |-> <<mainBranch, featureBranch>>,
                             commits |-> cs,
                             tasks |-> genTasks,
                             issues |-> [i \in 1..NumIssues |->
                                            generateIssue(project.id, rnd.issueIds[i])],
                             pullRequests |-> [i \in 1..NumPullRequests |->
                                            generatePullRequest(project.id, rnd.prIds[i])],
                             edges |-> generateCommitEdges(cs, rnd.edgeIds)]]

-----------------------------------------------------------------------------
(* The generator called on its own, with the draws taken from small sets.   *)

Letters == <<"a", "b", "c", "d", "e", "f", "g", "h", "i", "j">>
\* the suffixes of successive generateId calls: ten in a row all different, or the
\* second repeating the first
IdDraws == {Letters, [Letters EXCEPT ![2] = "a"]}

CommitDraws ==
    {[suffix |-> s, hash |-> h, message |-> m, user |-> u, time |-> t,
      changes |-> c, pick |-> 1, taskSuffix |-> "k"] :
        s \in Suffixes, h \in HashDraws \cup {SeedDraw}, m \in {"fix", "run"},
        u \in DOMAIN SAMPLE_USERS, t \in Halves,
        c \in {<<"created">>, <<"modified", "deleted">>}}

BranchDraws ==
    {[suffix |-> s, name |-> n, user |-> u, created |-> c, active |-> a] :
        s \in Suffixes, n \in branchNames, u \in DOMAIN SAMPLE_USERS,
        c \in Halves, a \in Halves}

ProjectDraw ==
    [suffix |-> "k", name |-> "gym", user |-> 1, created |-> 0, updated |-> 1,
     isPrivate |-> FALSE, stars |-> 0, forks |-> 0]

CompleteDraws ==
    {[project |-> ProjectDraw, taskIds |-> Letters, commitIds |-> ids,
      commit |-> c, main |-> m, feature |-> f, issueIds |-> Letters,
      prIds |-> Letters, edgeIds |-> Letters] :
        ids \in IdDraws,
        c \in {d \in CommitDraws : /\ d.suffix = "k" /\ d.time = 0 /\ d.user = 1
                                   /\ d.hash = SeedDraw /\ d.message = "fix"},
        m \in {d \in BranchDraws : /\ d.suffix = "k" /\ d.user = 1
                                   /\ d.created = 0 /\ d.active = 0},
        f \in {d \in BranchDraws : /\ d.suffix = "x" /\ d.user = 1
                                   /\ d.created = 0 /\ d.active = 0}}

GeneratedTasks == {<<>>, <<generateTask(P1, "a"), generateTask(P1, "b")>>}

\* chains of up to three commits, as generateCommitEdges is handed them
Chain(n, ids) ==
    [i \in 1..n |-> generateCommit(Main, IF i = 1 THEN <<>> ELSE <<generateId(COMMIT, ids[i - 1])>>,
                                   <<>>,
                                   [suffix |-> ids[i], hash |-> SeedDraw, message |-> "fix",
                                    user |-> 1, time |-> 0, changes |-> <<"created">>,
                                    pick |-> 1, taskSuffix |-> "k"])]

Generated(op, draws, result) ==
    /\ last' = [op |-> op, outcome |-> "ok", draws |-> draws, result |-> result]
    /\ UNCHANGED <<store, now, calls, ops>>

DoGenerateCommit ==
    \E parentIds \in {<<>>, <<C1id>>}, existingTasks \in GeneratedTasks,
       rnd \in CommitDraws :
        Generated("generateCommit", rnd,
                  generateCommit(Main, parentIds, existingTasks, rnd))

DoGenerateBranch ==
    \E projectId \in {P1, P2}, headCommitId \in {C1id, C2id}, rnd \in BranchDraws :
        Generated("generateBranch", rnd, generateBranch(projectId, headCommitId, rnd))

DoGenerateCommitEdges ==
    \E n \in 0..3, ids \in IdDraws, suffixes \in IdDraws :
        Generated("generateCommitEdges", [commits |-> Chain(n, ids), ids |-> suffixes],
                  generateCommitEdges(Chain(n, ids), suffixes))

\* generateCompleteProject() is called: it returns a project or throws
DoGenerateCompleteProject ==
    \E rnd \in CompleteDraws, build \in Builds :
        LET r == generateCompleteProject(rnd, build)
        IN  /\ last' = IF r.outcome = "ok"
                       THEN [op |-> "generateCompleteProject", outcome |-> "ok",
                             draws |-> rnd, result |-> r.value]
                       ELSE [op |-> "generateCompleteProject", outcome |-> "throw",
                             draws |-> rnd, error |-> r.error]
            /\ UNCHANGED <<store, now, calls, ops>>

NextGen ==
    \/ DoGenerateCommit
    \/ DoGenerateBranch
    \/ DoGenerateCommitEdges
    \/ DoGenerateCompleteProject

SpecGen == Init /\ [][NextGen]_vars

-----------------------------------------------------------------------------
(* Properties of the generator.                                            *)

\* C27: generateCompleteProject terminates normally and returns a linear chain of
\* 8 commits: the first has empty parentIds and each later commits[i] has
\* parentIds = [commits[i-1].id].
C27_LinearChain ==
    last.op = "generateCompleteProject" =>
        /\ last.outcome = "ok"
        /\ Len(last.result.commits) = NumCommits
        /\ last.result.commits[1].parentIds = <<>>
        /\ \A i \in 2..NumCommits :
              last.result.commits[i].parentIds = <<last.result.commits[i - 1].id>>

\* C28: generateCompleteProject returns a referentially closed project: the main
\* branch heads at the last returned commit and the feature branch at an earlier
\* one, every edge joins two returned commits, there is exactly one edge per
\* consecutive pair of commits, and the edges are exactly the (parent, child)
\* pairs of the commits' parentIds.
C28_ReferentiallyClosed ==
    last.op = "generateCompleteProject" =>
        /\ last.outcome = "ok"
        /\ LET r == last.result
               n == Len(r.commits)
               ids == {r.commits[i].id : i \in 1..n}
           IN  /\ r.branches[1].headCommitId = r.commits[n].id
               /\ \E i \in 1..(n - 1) : r.branches[2].headCommitId = r.commits[i].id
               /\ \A k \in 1..Len(r.edges) :
                     r.edges[k].from \in ids /\ r.edges[k].to \in ids
               /\ Len(r.edges) = n - 1
               /\ \A k \in 1..(n - 1) :
                     /\ r.edges[k].from = r.commits[k].id
                     /\ r.edges[k].to = r.commits[k + 1].id
               /\ {<<r.edges[k].from, r.edges[k].to>> : k \in 1..Len(r.edges)}
                    = UNION {{<<r.commits[i].parentIds[j], r.commits[i].id>> :
                                 j \in 1..Len(r.commits[i].parentIds)} : i \in 1..n}

\* C29: generateCompleteProject returns two branches of which exactly one has
\* isDefault = true, the one named "main", which is the project's defaultBranch;
\* the branch named "feature/enhancements" has isDefault = false.
C29_OneDefaultBranch ==
    last.op = "generateCompleteProject" =>
        /\ last.outcome = "ok"
        /\ LET bs == last.result.branches
           IN  /\ Len(bs) = 2
               /\ Cardinality({i \in 1..Len(bs) : bs[i].isDefault}) = 1
               /\ \A i \in 1..Len(bs) :
                     bs[i].isDefault <=> bs[i].name = last.result.project.defaultBranch
               /\ last.result.project.defaultBranch = "main"
               /\ \A i \in 1..Len(bs) :
                     bs[i].name = "feature/enhancements" => ~bs[i].isDefault

-----------------------------------------------------------------------------
(* clearAll, reset, getStoreStats and the reads by id.                     *)

\* getStoreStats(): the size of every collection
getStoreStats ==
    [projects |-> Len(projects), commits |-> Len(commits), branches |-> Len(branches),
     tasks |-> Len(tasks), issues |-> Len(issues), pullRequests |-> Len(pullRequests),
     edges |-> Len(commitEdges)]

\* this.<collection>.get(id) || null
getById(m, id) == IF MapHas(m, id) THEN MapGet(m, id) ELSE Null

\* a clearAll that leaves the initialized flag as it is
ClearedFlagKept(flag) == flag

\* clearAll: this.initialized = false
ClearedFlag(flag) == FALSE

\* clearAll(): every map is cleared; it has no await
ClearAll ==
    /\ ops' = ops + 1
    /\ projects' = <<>> /\ commits' = <<>> /\ branches' = <<>> /\ tasks' = <<>>
    /\ issues' = <<>> /\ pullRequests' = <<>> /\ commitEdges' = <<>>
    /\ initialized' = ClearedFlag(initialized)
    /\ last' = [op |-> "clearAll", outcome |-> "ok"]
    /\ UNCHANGED <<now, calls>>

\* forEach(entity => map.set(entity.id, ...)) over a fixture, in its order
RECURSIVE Load(_, _)
Load(m, fixture) ==
    IF fixture = <<>> THEN m
    ELSE Load(MapSet(m, Head(fixture).key, Head(fixture).val), Tail(fixture))

\* reset() up to its await: the body of clearAll runs inside `await this.clearAll()`
ResetCall(c) ==
    /\ ops' = ops + 1
    /\ projects' = <<>> /\ commits' = <<>> /\ branches' = <<>> /\ tasks' = <<>>
    /\ issues' = <<>> /\ pullRequests' = <<>> /\ commitEdges' = <<>>
    /\ initialized' = ClearedFlag(initialized)
    /\ calls' = [calls EXCEPT ![c] = [status |-> "resetting", before |-> getStoreStats]]
    /\ last' = [op |-> "reset", outcome |-> "await", before |-> getStoreStats]
    /\ UNCHANGED now

\* reset() after its await: initializeWithMockData(), which returns at once when
\* the store is initialized and otherwise sets every fixture entity
ResetResume(c) ==
    /\ calls[c].status = "resetting"
    /\ IF initialized
       THEN UNCHANGED store
       ELSE /\ projects' = Load(projects, mockProjects)
            /\ commits' = Load(commits, mockCommits)
            /\ branches' = Load(branches, mockBranches)
            /\ tasks' = Load(tasks, mockTasks)
            /\ issues' = Load(issues, mockIssues)
            /\ pullRequests' = Load(pullRequests, mockPullRequests)
            /\ commitEdges' = Load(commitEdges, mockEdges)
            /\ initialized' = TRUE
    /\ calls' = [calls EXCEPT ![c] = NoCall]
    /\ last' = [op |-> "reset", outcome |-> "ok", before |-> calls[c].before]
    /\ UNCHANGED <<now, ops>>

\* a read by id returns
Got(op, id, result) ==
    /\ MayStart
    /\ ops' = ops + 1
    /\ last' = [op |-> op, outcome |-> "ok", id |-> id, result |-> result]
    /\ UNCHANGED <<store, now, calls>>

DoClearAll == MayStart /\ ClearAll
DoReset == MayStart /\ ResetCall(1)
DoResetResume == \E c \in DOMAIN calls : ResetResume(c)
DoGetStoreStats ==
    /\ MayStart
    /\ ops' = ops + 1
    /\ last' = [op |-> "getStoreStats", outcome |-> "ok", result |-> getStoreStats]
    /\ UNCHANGED <<store, now, calls>>
DoGetProject == \E id \in {P1, Ghost} : Got("getProject", id, getProject(projects, id))
DoGetCommit == \E id \in {C1id, Ghost} : Got("getCommit", id, getById(commits, id))
DoGetBranch == \E id \in {B1, Ghost} : Got("getBranch", id, getById(branches, id))
DoGetTask ==
    \E id \in {generateId(TASK, "1"), Ghost} : Got("getTask", id, getById(tasks, id))
DoGetIssue ==
    \E id \in {generateId(ISSUE, "1"), Ghost} : Got("getIssue", id, getById(issues, id))
DoGetPullRequest ==
    \E id \in {generateId(PR, "1"), Ghost} :
        Got("getPullRequest", id, getById(pullRequests, id))

NextReset ==
    \/ DoTick
    \/ DoCreateProject
    \/ DoUpdateProject
    \/ DoDeleteProject
    \/ DoCreateBranch
    \/ DoUpdateBranch
    \/ DoCreateCommit
    \/ DoCreatePullRequest
    \/ DoResume
    \/ DoClearAll
    \/ DoReset
    \/ DoResetResume
    \/ DoGetStoreStats
    \/ DoGetProject
    \/ DoGetCommit
    \/ DoGetBranch
    \/ DoGetTask
    \/ DoGetIssue
    \/ DoGetPullRequest

SpecReset == Init /\ [][NextReset]_vars

Seeded ==
    /\ projects = mockProjects /\ commits = mockCommits /\ branches = mockBranches
    /\ tasks = mockTasks /\ issues = mockIssues /\ pullRequests = mockPullRequests
    /\ commitEdges = mockEdges

Cleared ==
    /\ projects = <<>> /\ commits = <<>> /\ branches = <<>> /\ tasks = <<>>
    /\ issues = <<>> /\ pullRequests = <<>> /\ commitEdges = <<>>

SeedStats ==
    [projects |-> Len(mockProjects), commits |-> Len(mockCommits),
     branches |-> Len(mockBranches), tasks |-> Len(mockTasks),
     issues |-> Len(mockIssues), pullRequests |-> Len(mockPullRequests),
     edges |-> Len(mockEdges)]

GetOps == {"getProject", "getCommit", "getBranch", "getTask", "getIssue",
           "getPullRequest"}

\* C30: when reset() has returned, whatever was done before it, every collection
\* equals the one right after construction (so a second reset changes nothing and
\* getStoreStats on that state returns the initial counts); when clearAll() has
\* returned every collection is empty, and on the cleared store every get
\* returns null.
C30_ResetRestoresSeed ==
    /\ (last.op = "reset" /\ last.outcome = "ok") => (Seeded /\ initialized)
    /\ (last.op = "getStoreStats" /\ Seeded) => last.result = SeedStats
    /\ last.op = "clearAll" => Cleared
    /\ (last.op \in GetOps /\ Cleared) => last.result = Null

\* C30 witness: reset() has returned on a store whose projects had been changed
\* in number, and the store is the seeded one again
C30_Witness ==
    /\ last.op = "reset" /\ last.outcome = "ok"
    /\ last.before.projects # Len(mockProjects)
    /\ Seeded

\* C30 witness of the cleared store: a get has returned null for a seeded id
\* after clearAll
C30_WitnessCleared ==
    /\ last.op = "getProject" /\ last.id = P1
    /\ Cleared
    /\ last.result = Null

-----------------------------------------------------------------------------
(* getProjectGraph next to concurrent mutations.  The call reads the       *)
(* project in `await this.getProject(projectId)`, is suspended at that     *)
(* await, and reads the collections when it is resumed; operations of      *)
(* other callers run in between.                                           *)

\* getProjectGraph after its await, project being what getProject returned
assembleGraph(project, projectId) ==
    IF project = Null
    THEN Null
    ELSE [project |-> project,
          commits |-> projectCommits(projectId),
          branches |-> OfProject(branches, projectId),
          edges |-> projectEdges(projectId),
          issues |-> OfProject(issues, projectId),
          pullRequests |-> OfProject(pullRequests, projectId),
          tasks |-> OfProject(tasks, projectId)]

\* getProjectGraph up to its await: getProject, which has no await, has run
GraphCall(c, projectId) ==
    /\ calls[c].status = "idle"
    /\ ops < MaxOps
    /\ ops' = ops + 1
    /\ calls' = [calls EXCEPT ![c] =
                    [status |-> "reading", projectId |-> projectId,
                     project |-> getProject(projects, projectId),
                     atCall |-> getProjectGraph(projectId), seq |-> ops']]
    /\ last' = [op |-> "getProjectGraph", outcome |-> "await", projectId |-> projectId]
    /\ UNCHANGED <<store, now>>

\* getProjectGraph after its await
GraphResume(c) ==
    /\ calls[c].status = "reading"
    /\ calls' = [calls EXCEPT ![c] = NoCall]
    /\ last' = [op |-> "getProjectGraph", outcome |-> "ok",
                projectId |-> calls[c].projectId,
                atCall |-> calls[c].atCall,
                between |-> ops - calls[c].seq,
                result |-> assembleGraph(calls[c].project, calls[c].projectId)]
    /\ UNCHANGED <<store, now, ops>>

\* the second caller reads the graph, the first one creates commits
DoGraphCall == \E p \in {P1, Ghost} : GraphCall(2, p)
DoGraphResume == GraphResume(2)

NextGraphConc ==
    \/ DoGraphCall
    \/ DoGraphResume
    \/ DoUpdateProject
    \/ DoDeleteProject
    \/ DoCreateCommit
    \/ DoResume
    \/ DoCreateBranch
    \/ DoClearAll

SpecGraphConc == Init /\ [][NextGraphConc]_vars

\* C31: the aggregate getProjectGraph(P) returns equals the aggregate of one single
\* store state that existed between the call and its return.  With at most one
\* operation of another caller in between, those states are the one at the call
\* and the one at the return.
C31_GraphOfOneState ==
    (/\ last.op = "getProjectGraph" /\ last.outcome = "ok"
     /\ "between" \in DOMAIN last /\ last.between <= 1)
    => last.result \in {last.atCall, getProjectGraph(last.projectId)}

-----------------------------------------------------------------------------
\* C32: in every reachable store state, for every stored branch, the commit
\* referenced by headCommitId is stored and its branchName equals the name of
\* that branch.
C32_HeadOnOwnBranch ==
    \A i \in DOMAIN branches :
        /\ MapHas(commits, branches[i].val.headCommitId)
        /\ MapGet(commits, branches[i].val.headCommitId).branchName = branches[i].val.name

-----------------------------------------------------------------------------
\* C33: stored commits are immutable: a step of any operation other than
\* clearAll and reset keeps every stored commit in the collection with all its
\* fields unchanged.
C33_CommitsImmutable ==
    [][last'.op \notin {"clearAll", "reset"}
       => \A i \in DOMAIN commits :
              /\ MapHas(commits', commits[i].key)
              /\ MapGet(commits', commits[i].key) = commits[i].val]_vars

-----------------------------------------------------------------------------
\* the step is made by createCommit, createBranch or createPullRequest called
\* with this projectId
CalledFor(projectId) ==
    \/ /\ last'.op \in {"createBranch", "createPullRequest"}
       /\ last'.projectId = projectId
    \/ /\ last'.op = "createCommit"
       /\ "projectId" \in DOMAIN calls'[last'.caller]
       /\ calls'[last'.caller].projectId = projectId

\* C34: for two distinct existing projects, no createCommit, createBranch or
\* createPullRequest invoked with the id of the first changes what
\* getProjectGraph returns for the second; in particular a commit created for
\* the first never shows among the second's commits.
C34_GraphIsolated ==
    [][(/\ CalledFor(P1)
        /\ getProject(projects, P1) # Null
        /\ getProject(projects, P2) # Null)
       => getProjectGraph(P2)' = getProjectGraph(P2)]_vars

====
